---- MODULE Spec2Model ----
(***************************************************************************)
(* Model of the task orchestration core of MultiMediaWorkerTS:             *)
(*   MediaAgent.runTask            src/unnamed/part_005                    *)
(*   MediaAgentTaskError           src/unnamed/part_006                    *)
(*   TaskPhaseTracker              src/backend/src/agent/core              *)
(*   CommandExecutor.execute       src/backend/src/agent/execution         *)
(*   PlanValidator, ToolRegistry   src/unnamed/part_003, agent/registry    *)
(*   prepareRevisionFiles          src/unnamed/part_012                    *)
(*   MediaAgentServer              src/backend/src/server                  *)
(*   SessionRecordStore            src/backend/src/server                  *)
(*   composeRevisionTask           src/unnamed/part_012                    *)
(*   LogStreamManager              src/unnamed/part_013                    *)
(*                                                                         *)
(* JavaScript values are encoded as tagged records so that null,           *)
(* undefined, numbers, strings, arrays and objects stay distinguishable:   *)
(*   Undefined, Null, Num(n), Str(s), Arr(s), Obj(v).                      *)
(*                                                                         *)
(* Specifications:                                                         *)
(*   Spec          one call of runTask, the executor and its children      *)
(*   SpecLive      the same under the scheduling of the event loop         *)
(*   SpecValidate  one call of validateOutput                              *)
(*   SpecPlan      validate on a raw plan, then on the plan it returned    *)
(*   SpecRevision  one call of prepareRevisionFiles                        *)
(*   SpecServer    one call of handleTaskRequest                           *)
(*   SpecHistory   one call of handleRevisionRequest, a chain of sessions  *)
(*   SpecHistoryLive   the same with every await resuming                  *)
(*   SpecConcurrent    several calls of handleRevisionRequest interleaved  *)
(*   SpecDescribe  one call of describeOutputs                             *)
(*   SpecFailure   one call of describeExecutionFailure                    *)
(*   SpecStreams   the LogStreamManager and its subscribers                *)
(*   SpecSpawn     one call of spawnProcess and the events of its child    *)
(***************************************************************************)
EXTENDS Integers, Sequences, FiniteSets, TLC

\* ------------------------------------------------------------------ bounds
MaxSteps == 3

\* ------------------------------------------------------- JavaScript values
Undefined == [t |-> "undefined"]
Null == [t |-> "null"]
Num(n) == [t |-> "number", v |-> n]
\* a string value; v is the text as a sequence of pieces (<<>> is '')
Str(s) == [t |-> "string", v |-> s]
Obj(v) == [t |-> "object", v |-> v]

\* typeof x === 'number'
IsNumber(x) == x.t = "number"

\* typeof x === 'string'
IsString(x) == x.t = "string"

Coalesce_Falsy(x, d) ==
    IF x.t \in {"undefined", "null"} \/ (x.t = "string" /\ x.v = <<>>) THEN d ELSE x
\* the nullish coalescing operator  x ?? d
Coalesce(x, d) == IF x.t \in {"undefined", "null"} THEN d ELSE x

\* optional member access  error?.field  on a thrown value
Field(e, f) == IF e.t = "error" THEN e[f] ELSE Undefined

\* { ...a, ...b } : the keys of b override those of a
Merge(a, b) == [k \in (DOMAIN a) \cup (DOMAIN b) |-> IF k \in DOMAIN b THEN b[k] ELSE a[k]]

EmptyMeta == [k \in {} |-> Null]

\* an array value; v is the sequence of its elements
Arr(s) == [t |-> "array", v |-> s]

\* Array.isArray(x)
IsArray(x) == x.t = "array"

\* x && typeof x === 'object'
IsObject(x) == x.t \in {"object", "array"}

\* Boolean(x)
Truthy(x) ==
    /\ x.t \notin {"undefined", "null"}
    /\ ~(x.t = "string" /\ x.v = <<>>)
    /\ ~(x.t = "number" /\ x.v = 0)

\* String.prototype.trim on the pieces of a string: the white space
\* pieces at both ends are removed
IsWhitespace(c) == c \in {" ", "\t", "\n"}

RECURSIVE TrimStartPieces(_)
TrimStartPieces(s) ==
    IF Len(s) > 0 /\ IsWhitespace(s[1]) THEN TrimStartPieces(Tail(s)) ELSE s

RECURSIVE TrimEndPieces(_)
TrimEndPieces(s) ==
    IF Len(s) > 0 /\ IsWhitespace(s[Len(s)]) THEN TrimEndPieces(SubSeq(s, 1, Len(s) - 1))
    ELSE s

TrimPieces(s) == TrimEndPieces(TrimStartPieces(s))

\* ------------------------------------------------------------ ToolRegistry
DEFAULT_TOOL_DEFINITIONS ==
    [id \in {<<"ffmpeg">>, <<"magick">>, <<"exiftool">>, <<"yt-dlp">>, <<"none">>} |->
        Obj("definition")]

\* new ToolRegistry(definitions): the defaults overridden by definitions
ToolRegistryNew(definitions) == Merge(DEFAULT_TOOL_DEFINITIONS, definitions)

\* the properties an object literal inherits from Object.prototype
ObjectPrototypeKeys ==
    {<<"constructor">>, <<"toString">>, <<"valueOf">>, <<"hasOwnProperty">>}

\* definitions[key]: the own property, else the inherited one, else undefined
GetProperty(definitions, key) ==
    IF key \in DOMAIN definitions THEN definitions[key]
    ELSE IF key \in ObjectPrototypeKeys THEN Obj("inherited")
    ELSE Undefined

\* hasCommand: Boolean(this.definitions[command])
HasCommand(definitions, command) == Truthy(GetProperty(definitions, command))

\* listCommandIds: Object.keys(this.definitions)
ListCommandIds(definitions) == DOMAIN definitions

\* ------------------------------------------------------- TaskPhaseTracker
DEFAULT_PHASES == <<"plan", "execute", "summarize">>

NoPhaseError == [t |-> "null"]

TrackerNew ==
    [i \in 1..Len(DEFAULT_PHASES) |->
        [id |-> DEFAULT_PHASES[i], status |-> "pending", startedAt |-> FALSE,
         finishedAt |-> FALSE, error |-> NoPhaseError, meta |-> EmptyMeta, logs |-> <<>>]]

\* _findPhase: the first phase with the id, none when the id is unknown
HasPhase(ph, id) == \E i \in 1..Len(ph) : ph[i].id = id
FindPhase(ph, id) == CHOOSE i \in 1..Len(ph) : ph[i].id = id /\ \A j \in 1..(i-1) : ph[j].id # id

TrackerStart(ph, id, meta) ==
    IF ~HasPhase(ph, id) THEN ph
    ELSE LET i == FindPhase(ph, id) IN
         [ph EXCEPT ![i] = [@ EXCEPT !.status = "in_progress", !.startedAt = TRUE,
                                      !.meta = Merge(@, meta)]]

TrackerComplete(ph, id, meta) ==
    IF ~HasPhase(ph, id) THEN ph
    ELSE LET i == FindPhase(ph, id) IN
         [ph EXCEPT ![i] = [@ EXCEPT !.status = "success", !.finishedAt = TRUE,
                                      !.meta = Merge(@, meta)]]

\* the {message, name} recorded for a thrown value
PhaseErrorOf(error) ==
    IF IsString(error)
    THEN [t |-> "phaseError", message |-> error, name |-> Str(<<"Error">>)]
    ELSE [t |-> "phaseError",
          message |-> Coalesce(Field(error, "message"), Str(<<"Unknown error">>)),
          name |-> Coalesce(Field(error, "name"), Str(<<"Error">>))]

TrackerFail_KeepStatus(ph, id, error, meta) ==
    IF ~HasPhase(ph, id) THEN ph
    ELSE LET i == FindPhase(ph, id) IN
         [ph EXCEPT ![i] = [@ EXCEPT !.finishedAt = TRUE,
                                      !.meta = Merge(@, meta),
                                      !.error = PhaseErrorOf(error)]]

TrackerFail(ph, id, error, meta) ==
    IF ~HasPhase(ph, id) THEN ph
    ELSE LET i == FindPhase(ph, id) IN
         [ph EXCEPT ![i] = [@ EXCEPT !.status = "failed", !.finishedAt = TRUE,
                                      !.meta = Merge(@, meta),
                                      !.error = PhaseErrorOf(error)]]

TrackerLog(ph, id, message) ==
    IF ~HasPhase(ph, id) THEN ph
    ELSE LET i == FindPhase(ph, id) IN
         [ph EXCEPT ![i] = [@ EXCEPT !.logs = Append(@, message)]]

\* one call of start, complete, fail or log, with the status the phase had
\* when the call was made ("none" when the id is unknown)
CallEntry(ph, op, id) ==
    [op |-> op, id |-> id,
     from |-> IF HasPhase(ph, id) THEN ph[FindPhase(ph, id)].status ELSE "none"]

\* getPhases returns a copy of every tracked phase, in order
GetPhases(ph) == [i \in 1..Len(ph) |-> ph[i]]

\* ---------------------------------------------------- MediaAgentTaskError
MediaAgentTaskError(message, phaseList, cause, context) ==
    [t |-> "error", name |-> Str(<<"MediaAgentTaskError">>), message |-> Str(<<message>>),
     phases |-> phaseList, cause |-> cause, context |-> context,
     rawPlan |-> Undefined, debug |-> Undefined, responseText |-> Undefined]

\* new Error(message) with the given name
PlainError(name, message) ==
    [t |-> "error", name |-> Str(<<name>>), message |-> message,
     rawPlan |-> Undefined, debug |-> Undefined, responseText |-> Undefined]

\* ------------------------------------------------------------- node:path
\* A path string is modelled by [abs, segs]: abs tells whether it starts
\* with "/", segs are its "/"-separated segments, each a sequence of
\* characters.  PathString gives the characters of the whole string.
DotDot == <<".", ".">>
Dot == <<".">>

RECURSIVE JoinSegs(_)
JoinSegs(segs) ==
    IF Len(segs) = 0 THEN <<>>
    ELSE IF Len(segs) = 1 THEN segs[1]
    ELSE segs[1] \o <<"/">> \o JoinSegs(Tail(segs))

PathString(p) == (IF p.abs THEN <<"/">> ELSE <<>>) \o JoinSegs(p.segs)

\* String.prototype.startsWith('..')
StartsWithDotDot(chars) == Len(chars) >= 2 /\ chars[1] = "." /\ chars[2] = "."

\* path.isAbsolute (POSIX): the string starts with "/"
IsAbsolute(chars) == Len(chars) >= 1 /\ chars[1] = "/"

\* the segments of a string split at "/" (empty segments included)
RECURSIVE SplitSlash(_, _)
SplitSlash(current, rest) ==
    IF Len(rest) = 0 THEN <<current>>
    ELSE IF rest[1] = "/" THEN <<current>> \o SplitSlash(<<>>, Tail(rest))
    ELSE SplitSlash(Append(current, rest[1]), Tail(rest))

\* the path a string of characters denotes
ParsePath(chars) ==
    IF IsAbsolute(chars) THEN [abs |-> TRUE, segs |-> SplitSlash(<<>>, Tail(chars))]
    ELSE [abs |-> FALSE, segs |-> SplitSlash(<<>>, chars)]

\* normalisation of the segments of an absolute path: empty segments and
\* "." are dropped, ".." removes the segment before it and is dropped at
\* the root
RECURSIVE NormalizeSegs(_, _)
NormalizeSegs(done, rest) ==
    IF Len(rest) = 0 THEN done
    ELSE IF rest[1] = <<>> \/ rest[1] = Dot THEN NormalizeSegs(done, Tail(rest))
    ELSE IF rest[1] = DotDot
         THEN NormalizeSegs(IF Len(done) = 0 THEN done ELSE SubSeq(done, 1, Len(done) - 1),
                            Tail(rest))
    ELSE NormalizeSegs(Append(done, rest[1]), Tail(rest))

\* path.resolve(p) with process.cwd() = cwd (segments of an absolute path)
Resolve(cwd, p) ==
    IF p.abs THEN NormalizeSegs(<<>>, p.segs)
    ELSE NormalizeSegs(<<>>, cwd \o p.segs)

\* length of the longest common prefix of two segment lists
RECURSIVE CommonPrefixLen(_, _)
CommonPrefixLen(a, b) ==
    IF Len(a) = 0 \/ Len(b) = 0 \/ a[1] # b[1] THEN 0
    ELSE 1 + CommonPrefixLen(Tail(a), Tail(b))

\* path.relative(from, to) for two resolved absolute paths: one ".." per
\* segment of from below the common prefix, then the rest of to
Relative(from, to) ==
    LET n == CommonPrefixLen(from, to) IN
    [abs |-> FALSE,
     segs |-> [i \in 1..(Len(from) - n) |-> DotDot] \o SubSeq(to, n + 1, Len(to))]

\* path.dirname of a resolved absolute path
Dirname(segs) == IF Len(segs) = 0 THEN segs ELSE SubSeq(segs, 1, Len(segs) - 1)

\* ---------------------------------------------------------- PlanValidator
\* validateOutput: "missing" for an empty path, "outside" when the
\* directory-escape guard rejects, else the resolved absolute path
ValidateOutput(cwd, rawPath, normalizedOutputDir) ==
    IF PathString(rawPath) = <<>> THEN [verdict |-> "missing"]
    ELSE LET absolutePath == Resolve(cwd, rawPath)
             relative == PathString(Relative(normalizedOutputDir, absolutePath))
         IN IF StartsWithDotDot(relative) \/ IsAbsolute(relative)
            THEN [verdict |-> "outside"]
            ELSE [verdict |-> "ok", path |-> absolutePath]

\* what validate, validateStep and validateOutput do: return a value or
\* throw an Error with a message (text, and the step number it names)
Returned(value) == [kind |-> "returned", value |-> value]
Thrown(text, n) == [kind |-> "thrown", message |-> [text |-> text, step |-> n]]

\* the first element of a sequence of outcomes that is a throw
FirstThrown(rs) ==
    rs[CHOOSE i \in 1..Len(rs) :
          rs[i].kind = "thrown" /\ \A j \in 1..(i - 1) : rs[j].kind # "thrown"]

\* validateOutput on a raw element of outputs (lines 80-107)
ValidateRawOutput(cwd, rawOutput, stepIndex, normalizedOutputDir) ==
    IF ~IsObject(rawOutput) THEN Thrown("outputs[i] is invalid.", stepIndex + 1)
    ELSE LET rawPath == IF IsString(rawOutput.path) THEN TrimPieces(rawOutput.path.v) ELSE <<>>
             r == ValidateOutput(cwd, ParsePath(rawPath), normalizedOutputDir)
         IN IF r.verdict = "missing" THEN Thrown("output path is missing.", stepIndex + 1)
            ELSE IF r.verdict = "outside"
            THEN Thrown("Output path lies outside of the output directory", stepIndex + 1)
            ELSE Returned([t |-> "object",
                           path |-> Str(PathString([abs |-> TRUE, segs |-> r.path])),
                           description |-> IF IsString(rawOutput.description)
                                           THEN rawOutput.description ELSE Str(<<>>)])

\* x.trim() when x is a string with a non-blank content, else undefined
TrimmedOrUndefined(x) ==
    IF IsString(x) /\ TrimPieces(x.v) # <<>> THEN Str(TrimPieces(x.v)) ELSE Undefined

\* variant that turns every argument into a string
ValidateStep_CoercesArguments(definitions, cwd, rawStep, index, normalizedOutputDir) ==
    IF ~IsObject(rawStep) THEN Thrown("Command step is invalid.", index + 1)
    ELSE IF ~IsString(rawStep.command) \/ ~HasCommand(definitions, rawStep.command.v)
    THEN Thrown("Unknown command", index + 1)
    ELSE IF ~IsArray(rawStep.arguments)
    THEN Thrown("arguments must be an array of strings.", index + 1)
    ELSE LET outputs == IF IsArray(rawStep.outputs) THEN rawStep.outputs.v ELSE <<>>
             normalizedOutputs ==
                 [i \in 1..Len(outputs) |->
                     ValidateRawOutput(cwd, outputs[i], index, normalizedOutputDir)]
         IN IF \E i \in 1..Len(outputs) : normalizedOutputs[i].kind = "thrown"
            THEN FirstThrown(normalizedOutputs)
            ELSE Returned(
                   [t |-> "object",
                    command |-> rawStep.command,
                    arguments |-> Arr([i \in 1..Len(rawStep.arguments.v) |->
                                        IF IsString(rawStep.arguments.v[i])
                                        THEN rawStep.arguments.v[i] ELSE Str(<<"coerced">>)]),
                    reasoning |-> IF IsString(rawStep.reasoning) THEN rawStep.reasoning
                                  ELSE Str(<<>>),
                    outputs |-> Arr([i \in 1..Len(outputs) |-> normalizedOutputs[i].value]),
                    id |-> TrimmedOrUndefined(rawStep.id),
                    title |-> TrimmedOrUndefined(rawStep.title),
                    note |-> TrimmedOrUndefined(rawStep.note)])

\* validateStep (lines 43-78)
ValidateStep(definitions, cwd, rawStep, index, normalizedOutputDir) ==
    IF ~IsObject(rawStep) THEN Thrown("Command step is invalid.", index + 1)
    ELSE IF ~IsString(rawStep.command) \/ ~HasCommand(definitions, rawStep.command.v)
    THEN Thrown("Unknown command", index + 1)
    ELSE IF ~IsArray(rawStep.arguments)
            \/ \E i \in 1..Len(rawStep.arguments.v) : ~IsString(rawStep.arguments.v[i])
    THEN Thrown("arguments must be an array of strings.", index + 1)
    ELSE LET outputs == IF IsArray(rawStep.outputs) THEN rawStep.outputs.v ELSE <<>>
             normalizedOutputs ==
                 [i \in 1..Len(outputs) |->
                     ValidateRawOutput(cwd, outputs[i], index, normalizedOutputDir)]
         IN IF \E i \in 1..Len(outputs) : normalizedOutputs[i].kind = "thrown"
            THEN FirstThrown(normalizedOutputs)
            ELSE Returned(
                   [t |-> "object",
                    command |-> rawStep.command,
                    arguments |-> rawStep.arguments,
                    reasoning |-> IF IsString(rawStep.reasoning) THEN rawStep.reasoning
                                  ELSE Str(<<>>),
                    outputs |-> Arr([i \in 1..Len(outputs) |-> normalizedOutputs[i].value]),
                    id |-> TrimmedOrUndefined(rawStep.id),
                    title |-> TrimmedOrUndefined(rawStep.title),
                    note |-> TrimmedOrUndefined(rawStep.note)])

\* validate (lines 16-41): the outcome, and arg, the plan object passed in
\* as the call leaves it (validate works on it in place)
Validate(definitions, cwd, plan, outputDir) ==
    IF ~IsObject(plan) THEN Thrown("Command plan is invalid.", 0) @@ [arg |-> plan]
    ELSE IF ~IsString(outputDir) \/ TrimPieces(outputDir.v) = <<>>
    THEN Thrown("Output directory is not specified.", 0) @@ [arg |-> plan]
    ELSE IF ~IsArray(plan.steps) \/ Len(plan.steps.v) = 0
    THEN Thrown("Command steps are missing.", 0) @@ [arg |-> plan]
    ELSE LET normalizedPlan ==
                 [plan EXCEPT !.followUp = IF IsString(@) THEN @ ELSE Str(<<>>),
                              !.overview = IF IsString(@) THEN @ ELSE Str(<<>>)]
             normalizedOutputDir == Resolve(cwd, ParsePath(outputDir.v))
             steps == [i \in 1..Len(plan.steps.v) |->
                          ValidateStep(definitions, cwd, plan.steps.v[i], i - 1,
                                       normalizedOutputDir)]
         IN IF \E i \in 1..Len(steps) : steps[i].kind = "thrown"
            THEN FirstThrown(steps) @@ [arg |-> normalizedPlan]
            ELSE LET validated ==
                         [normalizedPlan EXCEPT
                             !.steps = Arr([i \in 1..Len(steps) |-> steps[i].value])]
                 IN Returned(validated) @@ [arg |-> validated]

\* -------------------------------------------------------- CommandExecutor
NoSkip == "undefined"

\* variants of resolveSkipReason with the checks in another order or missing
ResolveSkipReason_NoOpFirst(isDryRun, hasFailed, command) ==
    IF isDryRun THEN "dry_run"
    ELSE IF command = "none" THEN "no_op_command"
    ELSE IF hasFailed THEN "previous_step_failed"
    ELSE NoSkip

ResolveSkipReason_DryRunLast(isDryRun, hasFailed, command) ==
    IF hasFailed THEN "previous_step_failed"
    ELSE IF command = "none" THEN "no_op_command"
    ELSE IF isDryRun THEN "dry_run"
    ELSE NoSkip

ResolveSkipReason_NoneFails(isDryRun, hasFailed, command) ==
    IF isDryRun THEN "dry_run"
    ELSE IF hasFailed \/ command = "none" THEN "previous_step_failed"
    ELSE NoSkip

ResolveSkipReason(isDryRun, hasFailed, command) ==
    IF isDryRun THEN "dry_run"
    ELSE IF hasFailed THEN "previous_step_failed"
    ELSE IF command = "none" THEN "no_op_command"
    ELSE NoSkip

CreateSkippedResult(step, skipReason) ==
    [status |-> "skipped", command |-> step.command, arguments |-> step.arguments,
     reasoning |-> step.reasoning, exitCode |-> Null, timedOut |-> FALSE,
     stdout |-> "", stderr |-> "", skipReason |-> skipReason]

CreateExecutedResult(step, exitCode, stdout, stderr, timedOut) ==
    [status |-> "executed", command |-> step.command, arguments |-> step.arguments,
     reasoning |-> step.reasoning, exitCode |-> exitCode, timedOut |-> timedOut,
     stdout |-> stdout, stderr |-> stderr]

\* variant that reports the code of the 'close' event even after a timeout
SpawnResult_ReportsCode(code, timedOut, stdout, stderr) ==
    [exitCode |-> code, stdout |-> stdout, stderr |-> stderr, timedOut |-> timedOut]

\* the value spawnProcess resolves with when the child closes
SpawnResult(code, timedOut, stdout, stderr) ==
    [exitCode |-> IF timedOut THEN Null ELSE code, stdout |-> stdout,
     stderr |-> stderr, timedOut |-> timedOut]

\* variant that looks at the timeout only
StepFailed_TimeoutOnly(timedOut, exitCode) == timedOut

\* variant that looks at the exit code only
StepFailed_ExitCodeOnly(timedOut, exitCode) == exitCode # Null /\ exitCode # Num(0)

\* timedOut || (exitCode !== null && exitCode !== 0)
StepFailed(timedOut, exitCode) == timedOut \/ (exitCode # Null /\ exitCode # Num(0))

\* String.prototype.trimEnd on one piece of output: a piece made of white
\* space only trims to the empty string
TrimEnd(content) == IF content \in {" ", "\n"} THEN "" ELSE content

\* variant that numbers the headers from 0
AppendSectionOutput_ZeroBased(existing, index, step, content) ==
    IF content = "" THEN existing
    ELSE Append(existing, [header |-> <<index, step.command, step.arguments>>,
                           content |-> TrimEnd(content)])

\* appendSectionOutput: the transcript is a list of blocks, one header
\* line "[step N] <command> <args>" followed by the content, trimmed at
\* its end
AppendSectionOutput(existing, index, step, content) ==
    IF content = "" THEN existing
    ELSE Append(existing, [header |-> <<index + 1, step.command, step.arguments>>,
                           content |-> TrimEnd(content)])

\* variant that gives every skipped step the reason of the pass
MarkRemainingSkipped_Overwrites(results, hasFailed) ==
    IF ~hasFailed THEN results
    ELSE [i \in 1..Len(results) |->
            IF results[i].status = "skipped"
            THEN Merge(results[i], [skipReason |-> "previous_step_failed"])
            ELSE results[i]]

\* the pass after the loop (lines 111-119)
MarkRemainingSkipped(results, hasFailed) ==
    IF ~hasFailed THEN results
    ELSE [i \in 1..Len(results) |->
            IF results[i].status = "skipped" /\ "skipReason" \notin DOMAIN results[i]
            THEN Merge(results[i], [skipReason |-> "previous_step_failed"])
            ELSE results[i]]

RECURSIVE CollectOutputs(_)
CollectOutputs(steps) ==
    IF Len(steps) = 0 THEN <<>>
    ELSE steps[1].outputs \o CollectOutputs(Tail(steps))

\* every directory mkdir(dir, {recursive: true}) creates: dir and its ancestors
Ancestors(segs) == {SubSeq(segs, 1, n) : n \in 0..Len(segs)}

\* variant that creates the directory of the first output only
EnsureOutputDirectories_FirstOnly(cwd, outputs) ==
    IF Len(outputs) = 0 THEN {}
    ELSE Ancestors(Dirname(Resolve(cwd, outputs[1].path)))

EnsureOutputDirectories(cwd, outputs) ==
    UNION {Ancestors(Dirname(Resolve(cwd, outputs[i].path))) : i \in 1..Len(outputs)}

DescribeOutputs(cwd, outputs, root, fs) ==
    [i \in 1..Len(outputs) |->
        LET absolutePath == Resolve(cwd, outputs[i].path)
            exists == absolutePath \in DOMAIN fs
            relative == PathString(Relative(root.v, absolutePath))
        IN [path |-> outputs[i].path, description |-> outputs[i].description,
            absolutePath |-> absolutePath, exists |-> exists,
            size |-> IF exists THEN Num(fs[absolutePath]) ELSE Null,
            publicPath |-> IF exists /\ root # Null /\ ~StartsWithDotDot(relative)
                           THEN Str(relative) ELSE Null]]

\* variant whose dryRun is the caller's flag alone
ExecutionResult_DryRunAsRequested(results, lastCode, timedOut, out, err, resolved, isDryRun) ==
    [exitCode |-> lastCode, timedOut |-> timedOut, stdout |-> out, stderr |-> err,
     resolvedOutputs |-> resolved, dryRun |-> isDryRun, steps |-> results]

ExecutionResult(results, lastCode, timedOut, out, err, resolved, isDryRun) ==
    [exitCode |-> lastCode, timedOut |-> timedOut, stdout |-> out, stderr |-> err,
     resolvedOutputs |-> resolved,
     dryRun |-> isDryRun \/ \A i \in 1..Len(results) : results[i].status # "executed",
     steps |-> results]

\* -------------------------------------------- MediaAgent: result evaluation
ExecutedStepFailed(step) ==
    /\ step.status = "executed"
    /\ (step.timedOut \/ (IsNumber(step.exitCode) /\ step.exitCode.v # 0))

\* variant that looks at exit codes only
HasExecutionFailure_ExitCodeOnly(result) ==
    \/ (IsNumber(result.exitCode) /\ result.exitCode.v # 0)
    \/ \E i \in 1..Len(result.steps) :
          /\ result.steps[i].status = "executed"
          /\ IsNumber(result.steps[i].exitCode) /\ result.steps[i].exitCode.v # 0

HasExecutionFailure(result) ==
    \/ result.timedOut
    \/ (IsNumber(result.exitCode) /\ result.exitCode.v # 0)
    \/ \E i \in 1..Len(result.steps) : ExecutedStepFailed(result.steps[i])

\* variant that reads the top-level exit code before the steps
DescribeExecutionFailure_TopLevelFirst(result) ==
    IF result \in {Null, Undefined} THEN Str(<<"Command execution failed.">>)
    ELSE IF result.timedOut THEN Str(<<"Command execution timed out.">>)
    ELSE IF IsNumber(result.exitCode) /\ result.exitCode.v # 0
    THEN Str(<<"Command execution exited with code", ToString(result.exitCode.v)>>)
    ELSE IF \E i \in 1..Len(result.steps) : ExecutedStepFailed(result.steps[i])
    THEN LET failedStep == result.steps[CHOOSE k \in 1..Len(result.steps) :
                    /\ ExecutedStepFailed(result.steps[k])
                    /\ \A j \in 1..(k - 1) : ~ExecutedStepFailed(result.steps[j])]
         IN IF failedStep.timedOut
            THEN Str(<<"Command", failedStep.command, "timed out.">>)
            ELSE Str(<<"Command", failedStep.command, "exited with code",
                       ToString(failedStep.exitCode.v)>>)
    ELSE Str(<<"Command execution failed.">>)

DescribeExecutionFailure(result) ==
    IF result \in {Null, Undefined} THEN Str(<<"Command execution failed.">>)
    ELSE IF result.timedOut THEN Str(<<"Command execution timed out.">>)
    ELSE IF \E i \in 1..Len(result.steps) : ExecutedStepFailed(result.steps[i])
    THEN LET i == CHOOSE k \in 1..Len(result.steps) :
                    /\ ExecutedStepFailed(result.steps[k])
                    /\ \A j \in 1..(k - 1) : ~ExecutedStepFailed(result.steps[j])
             failedStep == result.steps[i]
         IN IF failedStep.timedOut
            THEN Str(<<"Command", failedStep.command, "timed out.">>)
            ELSE Str(<<"Command", failedStep.command, "exited with code",
                       IF IsNumber(failedStep.exitCode) THEN ToString(failedStep.exitCode.v)
                       ELSE "unknown">>)
    ELSE IF IsNumber(result.exitCode) /\ result.exitCode.v # 0
    THEN Str(<<"Command execution exited with code", ToString(result.exitCode.v)>>)
    ELSE Str(<<"Command execution failed.">>)

ExecuteMeta(isDryRun, result) ==
    [exitCode |-> result.exitCode, timedOut |-> result.timedOut,
     dryRun |-> isDryRun \/ result.dryRun,
     steps |-> [i \in 1..Len(result.steps) |->
                  [command |-> result.steps[i].command, status |-> result.steps[i].status,
                   exitCode |-> result.steps[i].exitCode, timedOut |-> result.steps[i].timedOut,
                   skipReason |-> IF "skipReason" \in DOMAIN result.steps[i]
                                  THEN Str(<<result.steps[i].skipReason>>) ELSE Null]]]

\* ------------------------------------------------------------------ inputs
OutDir == <<<<"o">>>>
Cwd == <<<<"w">>>>

OutputA == [path |-> [abs |-> TRUE, segs |-> OutDir \o <<<<"a">>>>], description |-> "a"]
OutputB == [path |-> [abs |-> TRUE, segs |-> OutDir \o <<<<"s">>, <<"b">>>>], description |-> "b"]

\* the steps a validated plan is made of
StepChoices ==
    { [command |-> "none", arguments |-> <<>>, reasoning |-> "r", outputs |-> <<>>],
      [command |-> "none", arguments |-> <<"-x">>, reasoning |-> "r", outputs |-> <<OutputA>>],
      [command |-> "ffmpeg", arguments |-> <<"-i">>, reasoning |-> "r", outputs |-> <<OutputB>>] }

Plans ==
    { [overview |-> "", followUp |-> "", steps |-> st] :
        st \in UNION {[1..n -> StepChoices] : n \in 1..MaxSteps} }

\* what a planner may throw: an Error that may carry rawPlan, debug and
\* responseText, or a bare string
PlannerErrors ==
    { [PlainError("Error", Str(<<"Unknown command: x">>)) EXCEPT
          !.rawPlan = rp, !.debug = dbg, !.responseText = rt] :
        rp \in {Undefined, Null, Obj("normalized")},
        dbg \in {Undefined, Obj("debug")},
        rt \in {Undefined, Str(<<>>), Str(<<"text">>)} }
    \cup {Str(<<"boom">>)}

\* what a planner result carries besides the plan: the raw plan, or (a
\* planner that leaves rawPlan out) the debug record of options.debug
PlannerResultShapes ==
    { [rawPlan |-> TRUE, debug |-> Undefined],
      [rawPlan |-> FALSE, debug |-> Obj("debug")] }

\* what a child process may do before it closes: the code of its 'close'
\* event (null when a signal ended it), its output, and the size of the
\* declared outputs it wrote (none when written is FALSE)
ProcessOutcomes ==
    { [code |-> Num(0), stdout |-> "hello", stderr |-> "", written |-> TRUE, size |-> 12],
      [code |-> Num(0), stdout |-> "", stderr |-> "", written |-> TRUE, size |-> 0],
      [code |-> Num(0), stdout |-> "", stderr |-> "warn", written |-> FALSE, size |-> 0],
      [code |-> Num(1), stdout |-> "", stderr |-> "err", written |-> FALSE, size |-> 0],
      [code |-> Null, stdout |-> " ", stderr |-> "", written |-> FALSE, size |-> 0] }

\* no output, no exit code, nothing written
Silent == [code |-> Null, stdout |-> "", stderr |-> "", written |-> FALSE, size |-> 0]

\* no child process
NoChild == [kind |-> "none"] @@ Silent

\* the children spawn can give: one that ends by itself ("ends"), one that
\* runs until it is signalled and then dies ("hangs"), one that runs on
\* after SIGTERM, which child.kill() sends and a process may handle or
\* ignore ("ignores"), and one that could not be started ("fails")
ChildBehaviours ==
    { [kind |-> "ends"] @@ o : o \in ProcessOutcomes }
    \cup { [kind |-> k] @@ Silent : k \in {"hangs", "ignores", "fails"} }

\* the payloads of the callbacks of execute (lines 68-70, 76-78, 80-91, 102-104)
SkipEvent_NoReason(i, step, reason) ==
    [type |-> "skip", index |-> i, command |-> step.command, reason |-> NoSkip]

SkipEvent(i, step, reason) ==
    [type |-> "skip", index |-> i, command |-> step.command, reason |-> reason]

StartEvent(i, step) == [type |-> "start", index |-> i, command |-> step.command]

OutputEvent(i, step, stream, text) ==
    [type |-> "output", index |-> i, command |-> step.command, stream |-> stream, text |-> text]

EndEvent(i, step, exitCode, timedOut) ==
    [type |-> "end", index |-> i, command |-> step.command,
     exitCode |-> exitCode, timedOut |-> timedOut]

\* ------------------------------------------------------------------- state
VARIABLES
    pc,                 \* where runTask is: idle, planning, executing, spawned, returned, thrown
    dryRun,             \* options.dryRun
    publicRoot,         \* options.publicRoot, resolved, or Null
    plan, rawPlan, debugInfo,   \* locals of runTask set from the planner's result
    plannerError,       \* the value caught by the catch block of the plan phase
    phases,             \* TaskPhaseTracker._phases
    index,              \* loop index of execute (0-based)
    stepResults, aggregatedStdout, aggregatedStderr,
    lastExitCode, anyTimedOut, encounteredFailure,
    spawnLog,           \* the step indexes a process was spawned for, in order
    dirs,               \* directories that exist
    files,              \* files that exist, with their size
    result,             \* local result of runTask
    failureError,       \* local failureError of runTask
    outcome,            \* how runTask settled: pending, returned(value), thrown(error)
    trackerCalls,       \* the start/complete/fail/log calls made on the tracker, in order
    procTimedOut,       \* local timedOut of spawnProcess: the timer has fired
    killSent,           \* child.kill() was called by the timer
    running,            \* indexes of the steps whose child process has not closed
    child,              \* what the spawned child process does
    procStdout,         \* local stdout of spawnProcess
    procStderr,         \* local stderr of spawnProcess
    events,             \* the calls made on the onCommand* callbacks, in order
    vCwd, vOutputDir, vRawPath, vResult,  \* one call of PlanValidator.validateOutput
    vpDefs,             \* ToolRegistry.definitions of the validator's registry
    vpPlan,             \* the plan object given to PlanValidator.validate
    vpOriginal,         \* what that object held before the first call
    vpOutputDir,        \* the outputDir argument
    vpResult,           \* outcome of validate(plan, outputDir)
    vpSecond,           \* outcome of validating the returned plan again
    vpc,                \* ready, validated, revalidated
    revRecord,          \* baseRecord given to prepareRevisionFiles
    revFs,              \* the file system it reads: kind and size of each path
    revCollected,       \* local collected
    revSeen,            \* local seen
    revIndex,           \* loop index
    revPc,              \* idle, inputs (first loop), outputs (second loop), done
    srvRequest,         \* the request given to handleTaskRequest
    srvAgent,           \* how agent.runTask settled
    srvCaught,          \* the error the catch block of the handler works on
    srvRecords,         \* session records written by the record store
    srvLog,             \* what was sent on the request's log channel
    srvResponses,       \* responses sent on res, in order
    srvPc,              \* idle, received, running, writing_success,
                        \* writing_failed, rejected, done
    rqStore,            \* the record store: session id -> stored record
    rqPc,               \* where the handler of each revision request is
    rqBody,             \* req.body of each revision request
    rqBase,             \* local baseRecord
    rqHistory, rqVisited, rqCurrent, rqCounter,   \* locals of collectRevisionHistory
    rqTask,             \* local revisionTask
    rqRecord,           \* the record built for the new session
    rqAppend,           \* local record of appendComplaintEntry
    rqResponse,         \* the response sent on res
    doSteps,            \* plan.steps given to collectOutputs
    doRoot,             \* the publicRoot argument of describeOutputs
    doFs,               \* the files it finds: size of each path
    doResult,           \* the array it returns
    dfResult,           \* the result given to describeExecutionFailure
    dfMessage,          \* the message it returns
    lsStreams,          \* LogStreamManager.streams: channel id -> subscriber of its entry
    lsEntry,            \* the entry made for each subscriber
    lsTrace,            \* what was done to each subscriber's response, in order
    lsConn,             \* each subscriber's request: new, open, rejected, disconnected
    lsCalls,            \* the calls and timer ticks so far
    spStdout,           \* local stdout of spawnProcess, as the chunks added
    spStderr,           \* local stderr
    spFinished,         \* local finished
    spTimedOut,         \* local timedOut
    spTimer,            \* the timer: none, armed, fired, cleared
    spKills,            \* the calls of child.kill()
    spSettled,          \* the calls of resolve and reject, in order
    spDelivered,        \* the child's events delivered so far
    spHooks             \* the calls of hooks.onStdout and hooks.onStderr

execVars == <<index, stepResults, aggregatedStdout, aggregatedStderr,
              lastExitCode, anyTimedOut, encounteredFailure, events>>
planVars == <<vpDefs, vpPlan, vpOriginal, vpOutputDir, vpResult, vpSecond, vpc>>
revVars == <<revRecord, revFs, revCollected, revSeen, revIndex, revPc>>
srvVars == <<srvRequest, srvAgent, srvCaught, srvRecords, srvLog, srvResponses, srvPc>>
rqVars == <<rqStore, rqPc, rqBody, rqBase, rqHistory, rqVisited, rqCurrent, rqCounter,
            rqTask, rqRecord, rqAppend, rqResponse>>
doVars == <<doSteps, doRoot, doFs, doResult>>
dfVars == <<dfResult, dfMessage>>
lsVars == <<lsStreams, lsEntry, lsTrace, lsConn, lsCalls>>
spVars == <<spStdout, spStderr, spFinished, spTimedOut, spTimer, spKills, spSettled, spDelivered, spHooks>>
\* the variables of the specifications of single components
svcVars == <<rqVars, doVars, dfVars, lsVars, spVars>>
valVars == <<vCwd, vOutputDir, vRawPath, vResult, planVars, revVars, srvVars, svcVars>>
procVars == <<procTimedOut, killSent, running, child, procStdout, procStderr>>
vars == <<pc, dryRun, publicRoot, plan, rawPlan, debugInfo, plannerError, phases, execVars, spawnLog,
          dirs, files, result, failureError, outcome, valVars, trackerCalls, procVars>>

NoFiles == [f \in {} |-> 0]

AgentInit ==
    /\ pc = "idle"
    /\ dryRun = FALSE
    /\ publicRoot = Null
    /\ plan = Undefined
    /\ rawPlan = Undefined
    /\ debugInfo = Undefined
    /\ plannerError = Undefined
    /\ phases = <<>>
    /\ index = 0
    /\ stepResults = <<>>
    /\ aggregatedStdout = <<>>
    /\ aggregatedStderr = <<>>
    /\ lastExitCode = Null
    /\ anyTimedOut = FALSE
    /\ encounteredFailure = FALSE
    /\ spawnLog = <<>>
    /\ dirs = {<<>>}
    /\ files = NoFiles
    /\ result = Undefined
    /\ failureError = Undefined
    /\ outcome = [kind |-> "pending"]
    /\ trackerCalls = <<>>
    /\ procTimedOut = FALSE
    /\ killSent = FALSE
    /\ running = {}
    /\ child = NoChild
    /\ procStdout = ""
    /\ procStderr = ""
    /\ events = <<>>

\* no call of validateOutput is under way
OutputIdle ==
    /\ vCwd = Cwd
    /\ vOutputDir = [abs |-> TRUE, segs |-> OutDir]
    /\ vRawPath = [abs |-> FALSE, segs |-> <<>>]
    /\ vResult = [verdict |-> "none"]

NoOutcome == [kind |-> "none"]

\* no call of validate is under way
PlanIdle ==
    /\ vpDefs = ToolRegistryNew(EmptyMeta)
    /\ vpPlan = Null
    /\ vpOriginal = Null
    /\ vpOutputDir = Undefined
    /\ vpResult = NoOutcome
    /\ vpSecond = NoOutcome
    /\ vpc = "idle"

\* no call of prepareRevisionFiles is under way
RevisionIdle ==
    /\ revRecord = Null
    /\ revFs = NoFiles
    /\ revCollected = <<>>
    /\ revSeen = {}
    /\ revIndex = 0
    /\ revPc = "idle"

\* no request is being handled
ServerIdle ==
    /\ srvRequest = Null
    /\ srvAgent = Null
    /\ srvCaught = Null
    /\ srvRecords = <<>>
    /\ srvLog = <<>>
    /\ srvResponses = <<>>
    /\ srvPc = "idle"

\* the revision requests that are handled at the same time
MaxRequests == 2

Requests == 1..MaxRequests

NoRecords == [k \in {} |-> Null]

\* no revision request has arrived
RequestsIdle ==
    /\ rqStore = NoRecords
    /\ rqPc = [r \in Requests |-> "idle"]
    /\ rqBody = [r \in Requests |-> Null]
    /\ rqBase = [r \in Requests |-> Null]
    /\ rqHistory = [r \in Requests |-> <<>>]
    /\ rqVisited = [r \in Requests |-> {}]
    /\ rqCurrent = [r \in Requests |-> Null]
    /\ rqCounter = [r \in Requests |-> 0]
    /\ rqTask = [r \in Requests |-> Null]
    /\ rqRecord = [r \in Requests |-> Null]
    /\ rqAppend = [r \in Requests |-> Null]
    /\ rqResponse = [r \in Requests |-> Null]

\* no call of describeOutputs is under way
DescribeIdle ==
    /\ doSteps = <<>>
    /\ doRoot = Null
    /\ doFs = NoFiles
    /\ doResult = Null

\* no call of describeExecutionFailure is under way
FailureIdle ==
    /\ dfResult = Null
    /\ dfMessage = Null

\* the subscribers (connections to the log stream endpoint) and the calls
\* of sendLogEvent and closeLogStream that are followed
MaxSubscribers == 2
MaxCalls == 2

Subscribers == 1..MaxSubscribers

Channels == {"a", "b"}

\* the LogStreamManager is new and no subscriber has connected
StreamsIdle ==
    /\ lsStreams = [ch \in Channels |-> 0]
    /\ lsEntry = [c \in Subscribers |-> [channel |-> "", closed |-> FALSE, heartbeat |-> FALSE]]
    /\ lsTrace = [c \in Subscribers |-> <<>>]
    /\ lsConn = [c \in Subscribers |-> "new"]
    /\ lsCalls = 0

\* the events of one child process that are followed
MaxEvents == 3

\* no call of spawnProcess is under way
SpawnIdle ==
    /\ spStdout = <<>>
    /\ spStderr = <<>>
    /\ spFinished = FALSE
    /\ spTimedOut = FALSE
    /\ spTimer = "none"
    /\ spKills = 0
    /\ spSettled = <<>>
    /\ spDelivered = <<>>
    /\ spHooks = <<>>

Init ==
    /\ AgentInit
    /\ OutputIdle
    /\ PlanIdle
    /\ RevisionIdle
    /\ ServerIdle
    /\ RequestsIdle
    /\ DescribeIdle
    /\ FailureIdle
    /\ StreamsIdle
    /\ SpawnIdle

\* ------------------------------------------------------ MediaAgent.runTask
\* runTask up to the await of planner.plan (lines 53-62)
RunTask(d, root) ==
    /\ pc = "idle"
    /\ dryRun' = d
    /\ publicRoot' = root
    /\ phases' = TrackerStart(TrackerNew, "plan", [task |-> "task"])
    /\ trackerCalls' = <<CallEntry(TrackerNew, "start", "plan")>>
    /\ pc' = "planning"
    /\ UNCHANGED <<plan, rawPlan, debugInfo, plannerError, execVars, spawnLog, dirs, files, result,
                   failureError, outcome, valVars, procVars>>

\* the catch block of the plan phase (lines 70-80)
PlanFailure(ph, error) ==
    LET failed == TrackerFail(ph, "plan", error, EmptyMeta) IN
    [phases |-> failed,
     calls |-> <<CallEntry(ph, "fail", "plan")>>,
     error |-> MediaAgentTaskError("Plan phase failed", GetPhases(failed), error,
                 [rawPlan |-> Coalesce(Field(error, "rawPlan"), Null),
                  debug |-> Coalesce(Field(error, "debug"), Null),
                  responseText |-> Coalesce(Field(error, "responseText"), Null)])]

PlannerThrows(error) ==
    /\ pc = "planning"
    /\ LET f == PlanFailure(phases, error) IN
       /\ phases' = f.phases
       /\ trackerCalls' = trackerCalls \o f.calls
       /\ outcome' = [kind |-> "thrown", error |-> f.error]
    /\ plannerError' = error
    /\ pc' = "thrown"
    /\ UNCHANGED <<dryRun, publicRoot, plan, rawPlan, debugInfo, execVars, spawnLog,
                   dirs, files, result, failureError, valVars, procVars>>

\* planner.plan resolves (lines 63-69); the execute phase starts (82-87)
\* and execute runs up to its loop (lines 42-58)
PlannerReturns(p, rp, dbg) ==
    /\ pc = "planning"
    /\ plan' = p
    /\ rawPlan' = rp
    /\ debugInfo' = dbg
    /\ LET planned == TrackerComplete(phases, "plan",
                        [steps |-> Len(p.steps),
                         commands |-> [i \in 1..Len(p.steps) |-> p.steps[i].command]])
           started == TrackerStart(planned, "execute", [dryRun |-> dryRun])
       IN /\ phases' = IF dryRun
                       THEN TrackerLog(started, "execute",
                                       "Dry-run mode enabled; skipping command execution.")
                       ELSE started
          /\ trackerCalls' = trackerCalls
                \o <<CallEntry(phases, "complete", "plan"), CallEntry(planned, "start", "execute")>>
                \o (IF dryRun THEN <<CallEntry(started, "log", "execute")>> ELSE <<>>)
    /\ dirs' = dirs \cup EnsureOutputDirectories(Cwd, CollectOutputs(p.steps))
    /\ index' = 0
    /\ stepResults' = <<>>
    /\ aggregatedStdout' = <<>>
    /\ aggregatedStderr' = <<>>
    /\ lastExitCode' = Null
    /\ anyTimedOut' = FALSE
    /\ encounteredFailure' = FALSE
    /\ events' = <<>>
    /\ pc' = "executing"
    /\ UNCHANGED <<dryRun, publicRoot, plannerError, spawnLog, files, result, failureError,
                   outcome, valVars, procVars>>

\* ------------------------------------------------- CommandExecutor.execute
\* variant that does not await spawnProcess: the step is recorded and the
\* loop goes on while the child is still running
ExecuteStep_NoAwait ==
    /\ pc = "executing"
    /\ index < Len(plan.steps)
    /\ LET step == plan.steps[index + 1]
           skipReason == ResolveSkipReason(dryRun, encounteredFailure, step.command)
       IN IF skipReason # NoSkip
          THEN /\ stepResults' = Append(stepResults, CreateSkippedResult(step, skipReason))
               /\ events' = Append(events, SkipEvent(index, step, skipReason))
               /\ UNCHANGED <<spawnLog, procVars>>
          ELSE /\ spawnLog' = Append(spawnLog, index)
               /\ running' = running \cup {index}
               /\ stepResults' = Append(stepResults,
                     CreateExecutedResult(step, Num(0), "", "", FALSE))
               /\ events' = events \o <<StartEvent(index, step),
                                         EndEvent(index, step, Num(0), FALSE)>>
               /\ UNCHANGED <<procTimedOut, killSent, child, procStdout, procStderr>>
    /\ index' = index + 1
    /\ UNCHANGED <<pc, dryRun, publicRoot, plan, rawPlan, debugInfo, plannerError, phases,
                   aggregatedStdout, aggregatedStderr, lastExitCode, anyTimedOut,
                   encounteredFailure, dirs, files, result, failureError, outcome, valVars,
                   trackerCalls>>

\* one turn of the loop up to the await of spawnProcess (lines 60-80): the
\* step is skipped and recorded, or its process is spawned and its timer
\* armed (lines 296-311)
ExecuteStep ==
    /\ pc = "executing"
    /\ index < Len(plan.steps)
    /\ LET step == plan.steps[index + 1]
           skipReason == ResolveSkipReason(dryRun, encounteredFailure, step.command)
       IN IF skipReason # NoSkip
          THEN /\ stepResults' = Append(stepResults, CreateSkippedResult(step, skipReason))
               /\ events' = Append(events, SkipEvent(index, step, skipReason))
               /\ index' = index + 1
               /\ UNCHANGED <<pc, spawnLog, procVars>>
          ELSE /\ spawnLog' = Append(spawnLog, index)
               /\ events' = Append(events, StartEvent(index, step))
               /\ running' = running \cup {index}
               /\ \E c \in ChildBehaviours : child' = c
               /\ procStdout' = ""
               /\ procStderr' = ""
               /\ procTimedOut' = FALSE
               /\ killSent' = FALSE
               /\ pc' = "spawned"
               /\ UNCHANGED <<stepResults, index>>
    /\ UNCHANGED <<dryRun, publicRoot, plan, rawPlan, debugInfo, plannerError, phases,
                   aggregatedStdout, aggregatedStderr, lastExitCode, anyTimedOut,
                   encounteredFailure, dirs, files, result, failureError, outcome, valVars,
                   trackerCalls>>

\* the timer of spawnProcess fires while the promise is not settled
\* (lines 308-311): timedOut is set and the child is killed
TimerExpires ==
    /\ pc = "spawned"
    /\ child.kind # "fails"
    /\ ~procTimedOut
    /\ procTimedOut' = TRUE
    /\ killSent' = TRUE
    /\ UNCHANGED <<pc, dryRun, publicRoot, plan, rawPlan, debugInfo, plannerError, phases,
                   execVars, spawnLog, dirs, files, result, failureError, outcome, valVars,
                   trackerCalls, running, child, procStdout, procStderr>>

\* a 'data' event of the child's stdout or stderr (lines 313-327): the text
\* is added to the local and handed to onCommandOutput.  A stream's text
\* comes as one chunk, while the child is alive.
ProcessData(stream) ==
    /\ pc = "spawned"
    /\ child.kind = "ends"
    /\ IF stream = "stdout"
       THEN /\ child.stdout # "" /\ procStdout = ""
            /\ procStdout' = procStdout \o child.stdout
            /\ events' = Append(events, OutputEvent(index, plan.steps[index + 1],
                                                    "stdout", child.stdout))
            /\ UNCHANGED procStderr
       ELSE /\ child.stderr # "" /\ procStderr = ""
            /\ procStderr' = procStderr \o child.stderr
            /\ events' = Append(events, OutputEvent(index, plan.steps[index + 1],
                                                    "stderr", child.stderr))
            /\ UNCHANGED procStdout
    /\ UNCHANGED <<pc, dryRun, publicRoot, plan, rawPlan, debugInfo, plannerError, phases,
                   index, stepResults, aggregatedStdout, aggregatedStderr, lastExitCode,
                   anyTimedOut, encounteredFailure, spawnLog, dirs, files, result,
                   failureError, outcome, valVars, trackerCalls,
                   procTimedOut, killSent, running, child>>

\* the files a process wrote: the declared outputs of its step
WriteOutputs(fs, step, o) ==
    IF ~o.written THEN fs
    ELSE LET written == {Resolve(Cwd, step.outputs[i].path) : i \in 1..Len(step.outputs)} IN
         [f \in (DOMAIN fs) \cup written |-> IF f \in written THEN o.size ELSE fs[f]]

\* the child closes (lines 337-348: the timer is cleared and the promise
\* resolves) and the loop body finishes (lines 93-108).  A child that ends
\* by itself closes once its streams have delivered their text; a child
\* that was sent the signal closes then, unless it ignores the signal.
ProcessClose ==
    /\ pc = "spawned"
    /\ \/ /\ child.kind = "ends"
          /\ procStdout = child.stdout
          /\ procStderr = child.stderr
       \/ /\ killSent
          /\ child.kind \in {"ends", "hangs"}
    /\ LET step == plan.steps[index + 1]
           complete == procStdout = child.stdout /\ procStderr = child.stderr
           o == IF complete THEN child ELSE [child EXCEPT !.written = FALSE]
           r == SpawnResult(o.code, procTimedOut, procStdout, procStderr)
       IN /\ stepResults' = Append(stepResults,
                CreateExecutedResult(step, r.exitCode, r.stdout, r.stderr, r.timedOut))
          /\ lastExitCode' = r.exitCode
          /\ anyTimedOut' = (anyTimedOut \/ r.timedOut)
          /\ aggregatedStdout' = AppendSectionOutput(aggregatedStdout, index, step, r.stdout)
          /\ aggregatedStderr' = AppendSectionOutput(aggregatedStderr, index, step, r.stderr)
          /\ events' = Append(events, EndEvent(index, step, r.exitCode, r.timedOut))
          /\ encounteredFailure' = (encounteredFailure \/ StepFailed(r.timedOut, r.exitCode))
          /\ files' = WriteOutputs(files, step, o)
    /\ running' = running \ {index}
    /\ child' = NoChild
    /\ procStdout' = ""
    /\ procStderr' = ""
    /\ procTimedOut' = FALSE
    /\ killSent' = FALSE
    /\ index' = index + 1
    /\ pc' = "executing"
    /\ UNCHANGED <<dryRun, publicRoot, plan, rawPlan, debugInfo, plannerError, phases, spawnLog, dirs,
                   result, failureError, outcome, valVars, trackerCalls>>

\* variant whose context has a result entry
ExecuteFailure_WithResult(ph, error, p, rp, dbg) ==
    LET failed == TrackerFail(ph, "execute", error, EmptyMeta) IN
    [phases |-> failed,
     calls |-> <<CallEntry(ph, "fail", "execute")>>,
     error |-> MediaAgentTaskError("Execution phase failed", GetPhases(failed), error,
                 [plan |-> Obj(p), rawPlan |-> Coalesce(rp, Obj(p)), debug |-> dbg,
                  result |-> Null])]

\* the catch block of the execute phase (lines 116-122)
ExecuteFailure(ph, error, p, rp, dbg) ==
    LET failed == TrackerFail(ph, "execute", error, EmptyMeta) IN
    [phases |-> failed,
     calls |-> <<CallEntry(ph, "fail", "execute")>>,
     error |-> MediaAgentTaskError("Execution phase failed", GetPhases(failed), error,
                 [plan |-> Obj(p), rawPlan |-> Coalesce(rp, Obj(p)), debug |-> dbg])]

\* the child emits 'error' (the command cannot be spawned): spawnProcess
\* rejects, execute throws, runTask catches (lines 116-122)
ProcessError ==
    /\ pc = "spawned"
    /\ child.kind = "fails"
    /\ LET f == ExecuteFailure(phases, PlainError("Error", Str(<<"spawn ENOENT">>)),
                               plan, rawPlan, debugInfo)
       IN /\ phases' = f.phases
          /\ trackerCalls' = trackerCalls \o f.calls
          /\ outcome' = [kind |-> "thrown", error |-> f.error]
    /\ pc' = "thrown"
    /\ UNCHANGED <<dryRun, publicRoot, plan, rawPlan, debugInfo, plannerError, execVars, spawnLog,
                   dirs, files, result, failureError, valVars, procVars>>

\* the error thrown inside the try block for a logical failure (101-114)
LogicalFailure(ph, cause, meta, p, rp, dbg, res) ==
    LET failed == TrackerFail(ph, "execute", cause, meta) IN
    [phases |-> failed,
     calls |-> <<CallEntry(ph, "fail", "execute")>>,
     error |-> MediaAgentTaskError("Execution phase failed", GetPhases(failed), cause,
                 [plan |-> Obj(p), rawPlan |-> Coalesce(rp, Obj(p)), debug |-> dbg,
                  result |-> Obj(res)])]

\* variant that records the number of steps
Summarize_CountsSteps(ph, p, rp, dbg, res) ==
    LET started == TrackerStart(ph, "summarize", EmptyMeta)
        done == TrackerComplete(started, "summarize", [outputs |-> Len(res.steps)])
    IN [phases |-> done,
        calls |-> <<CallEntry(ph, "start", "summarize"),
                    CallEntry(started, "complete", "summarize")>>,
        value |-> [plan |-> Obj(p), rawPlan |-> Coalesce(rp, Obj(p)), result |-> Obj(res),
                   phases |-> GetPhases(done), debug |-> dbg]]

\* the summarize phase and the value runTask returns (lines 124-135)
Summarize(ph, p, rp, dbg, res) ==
    LET started == TrackerStart(ph, "summarize", EmptyMeta)
        done == TrackerComplete(started, "summarize", [outputs |-> Len(res.resolvedOutputs)])
    IN [phases |-> done,
        calls |-> <<CallEntry(ph, "start", "summarize"),
                    CallEntry(started, "complete", "summarize")>>,
        value |-> [plan |-> Obj(p), rawPlan |-> Coalesce(rp, Obj(p)), result |-> Obj(res),
                   phases |-> GetPhases(done), debug |-> dbg]]

\* the loop is over: execute returns (lines 111-132) and runTask evaluates
\* the result (lines 88-135)
ExecuteReturns ==
    /\ pc = "executing"
    /\ index = Len(plan.steps)
    /\ \E marked \in {MarkRemainingSkipped(stepResults, encounteredFailure)} :
       \E resolved \in {DescribeOutputs(Cwd, CollectOutputs(plan.steps), publicRoot, files)} :
       \E res \in {ExecutionResult(marked, lastExitCode, anyTimedOut, aggregatedStdout,
                                   aggregatedStderr, resolved, dryRun)} :
       \E meta \in {ExecuteMeta(dryRun, res)} :
          /\ stepResults' = marked
          /\ result' = res
          /\ IF HasExecutionFailure(res)
             THEN \E cause \in {PlainError("CommandExecutionError",
                                            DescribeExecutionFailure(res))} :
                  \E inner \in {LogicalFailure(phases, cause, meta, plan, rawPlan,
                                               debugInfo, res)} :
                  \E outer \in {ExecuteFailure(inner.phases, inner.error, plan, rawPlan,
                                               debugInfo)} :
                     /\ failureError' = cause
                     /\ phases' = outer.phases
                     /\ trackerCalls' = trackerCalls \o inner.calls \o outer.calls
                     /\ outcome' = [kind |-> "thrown", error |-> outer.error]
                     /\ pc' = "thrown"
             ELSE \E completed \in {TrackerComplete(phases, "execute", meta)} :
                  \E s \in {Summarize(completed, plan, rawPlan, debugInfo, res)} :
                     /\ phases' = s.phases
                     /\ trackerCalls' = trackerCalls
                           \o <<CallEntry(phases, "complete", "execute")>> \o s.calls
                     /\ outcome' = [kind |-> "returned", value |-> s.value]
                     /\ pc' = "returned"
                     /\ UNCHANGED failureError
    /\ UNCHANGED <<dryRun, publicRoot, plan, rawPlan, debugInfo, plannerError, index,
                   aggregatedStdout, aggregatedStderr, lastExitCode, anyTimedOut,
                   encounteredFailure, events, spawnLog, dirs, files, valVars, procVars>>

Next ==
    \/ \E d \in BOOLEAN, root \in {Null, Obj(OutDir)} : RunTask(d, root)
    \/ \E e \in PlannerErrors : PlannerThrows(e)
    \/ \E p \in Plans, shape \in PlannerResultShapes :
          PlannerReturns(p, IF shape.rawPlan THEN Obj(p) ELSE Undefined, shape.debug)
    \/ ExecuteStep
    \/ TimerExpires
    \/ \E stream \in {"stdout", "stderr"} : ProcessData(stream)
    \/ ProcessClose
    \/ ProcessError
    \/ ExecuteReturns

Spec == Init /\ [][Next]_vars

\* The same program under the scheduling Node gives it: a continuation that
\* is ready runs, a timer that is armed fires, and an event of a child (its
\* data, its close, its spawn error) is delivered once the child has
\* produced it.  What the child does is not the program's to decide.
Fairness ==
    /\ WF_vars(ExecuteStep)
    /\ WF_vars(TimerExpires)
    /\ WF_vars(\E stream \in {"stdout", "stderr"} : ProcessData(stream))
    /\ WF_vars(ProcessClose)
    /\ WF_vars(ProcessError)
    /\ WF_vars(ExecuteReturns)

SpecLive == Init /\ [][Next]_vars /\ Fairness

\* ------------------------------------------- PlanValidator.validateOutput
\* bounds of the paths given to the validator
MaxPathLen == 3

Segments == {<<"o">>, <<"a">>, Dot, DotDot, <<".", ".", "c">>}

InputPaths ==
    { [abs |-> a, segs |-> sg] :
        a \in BOOLEAN, sg \in UNION {[1..n -> Segments] : n \in 0..MaxPathLen} }

OutputDirs ==
    { [abs |-> TRUE, segs |-> OutDir], [abs |-> TRUE, segs |-> OutDir \o <<<<"a">>>>],
      [abs |-> FALSE, segs |-> OutDir] }

InitValidate ==
    /\ AgentInit
    /\ vCwd \in {Cwd, OutDir}
    /\ vOutputDir \in OutputDirs
    /\ vRawPath \in InputPaths
    /\ vResult = [verdict |-> "none"]
    /\ PlanIdle
    /\ RevisionIdle
    /\ ServerIdle
    /\ RequestsIdle
    /\ DescribeIdle
    /\ FailureIdle
    /\ StreamsIdle
    /\ SpawnIdle

\* validate resolves the output directory once (line 37) and validates one
\* declared output against it (lines 80-107)
ValidateOutputCall ==
    /\ vResult.verdict = "none"
    /\ vResult' = ValidateOutput(vCwd, vRawPath, Resolve(vCwd, vOutputDir))
    /\ UNCHANGED <<pc, dryRun, publicRoot, plan, rawPlan, debugInfo, plannerError, phases,
                   execVars, spawnLog, dirs, files, result, failureError, outcome,
                   vCwd, vOutputDir, vRawPath, trackerCalls, procVars, planVars, revVars, srvVars, svcVars>>

NextValidate == ValidateOutputCall

SpecValidate == InitValidate /\ [][NextValidate]_vars

\* ------------------------------------------------- PlanValidator.validate
\* bound of the plans given to the validator
MaxPlanSteps == 2

\* text of a path as a string value, one piece per character
PathValue(p) == Str(PathString(p))

RawOutput(chars) == [t |-> "object", path |-> Str(chars), description |-> Str(<<"d">>)]

BaseStep ==
    [t |-> "object", command |-> Str(<<"ffmpeg">>), arguments |-> Arr(<<Str(<<"-i">>)>>),
     reasoning |-> Str(<<"r">>), outputs |-> Arr(<<>>),
     id |-> Undefined, title |-> Undefined, note |-> Undefined]

\* the steps a planner may produce: a well-formed step, and steps that
\* differ from it in one field (two for the last)
RawSteps ==
    { BaseStep,
      [BaseStep EXCEPT !.command = Str(<<"none">>), !.arguments = Arr(<<>>),
                       !.reasoning = Num(123), !.id = Str(<<" ", "step-1", " ">>),
                       !.title = Str(<<" ">>), !.note = Str(<<"note">>)],
      [BaseStep EXCEPT !.command = Str(<<"mytool">>)],
      [BaseStep EXCEPT !.command = Str(<<"constructor">>)],
      [BaseStep EXCEPT !.command = Num(1)],
      [BaseStep EXCEPT !.arguments = Arr(<<Str(<<"-i">>), Num(123)>>)],
      [BaseStep EXCEPT !.arguments = Str(<<"-i">>)],
      [BaseStep EXCEPT !.command = Str(<<"bogus">>), !.arguments = Arr(<<Num(123)>>)],
      [BaseStep EXCEPT !.outputs = Arr(<<RawOutput(<<"/", "o", "/", "a">>)>>)],
      [BaseStep EXCEPT !.outputs = Arr(<<RawOutput(<<" ", "/", "o", "/", "a", " ", "/">>)>>)],
      [BaseStep EXCEPT !.outputs = Arr(<<RawOutput(<<"/", "x", "/", "a">>)>>)],
      [BaseStep EXCEPT !.outputs = Arr(<<RawOutput(<<" ">>)>>)],
      [BaseStep EXCEPT !.outputs = Arr(<<Null>>)],
      [BaseStep EXCEPT !.outputs = Undefined],
      Null }

RawPlans ==
    {Null} \cup
    { [t |-> "object", overview |-> shape.overview, followUp |-> shape.followUp, steps |-> st] :
        shape \in { [overview |-> Str(<<"ov">>), followUp |-> Str(<<"fu">>)],
                    [overview |-> Undefined, followUp |-> Num(0)] },
        st \in {Undefined} \cup
               {Arr(q) : q \in UNION {[1..n -> RawSteps] : n \in 0..MaxPlanSteps}} }

\* the definitions a registry may be built with: none, or one more tool
CustomDefinitions == {EmptyMeta, [id \in {<<"mytool">>} |-> Obj("definition")]}

InitPlan ==
    /\ AgentInit
    /\ OutputIdle
    /\ vpDefs \in {ToolRegistryNew(c) : c \in CustomDefinitions}
    /\ vpPlan \in RawPlans
    /\ vpOriginal = vpPlan
    /\ vpOutputDir \in {PathValue([abs |-> TRUE, segs |-> OutDir]), Undefined}
    /\ vpResult = NoOutcome
    /\ vpSecond = NoOutcome
    /\ vpc = "ready"
    /\ RevisionIdle
    /\ ServerIdle
    /\ RequestsIdle
    /\ DescribeIdle
    /\ FailureIdle
    /\ StreamsIdle
    /\ SpawnIdle

\* validator.validate(plan, outputDir)
ValidateCall ==
    /\ vpc = "ready"
    /\ LET r == Validate(vpDefs, Cwd, vpPlan, vpOutputDir) IN
       /\ vpPlan' = r.arg
       /\ vpResult' = [k \in (DOMAIN r) \ {"arg"} |-> r[k]]
    /\ vpc' = "validated"
    /\ UNCHANGED <<pc, dryRun, publicRoot, plan, rawPlan, debugInfo, plannerError, phases,
                   execVars, spawnLog, dirs, files, result, failureError, outcome,
                   vCwd, vOutputDir, vRawPath, vResult, trackerCalls, procVars,
                   vpDefs, vpOriginal, vpOutputDir, vpSecond, revVars, srvVars, svcVars>>

\* validator.validate(validated, outputDir) on the plan the first call returned
RevalidateCall ==
    /\ vpc = "validated"
    /\ vpResult.kind = "returned"
    /\ LET r == Validate(vpDefs, Cwd, vpResult.value, vpOutputDir) IN
       /\ vpPlan' = r.arg
       /\ vpSecond' = [k \in (DOMAIN r) \ {"arg"} |-> r[k]]
    /\ vpc' = "revalidated"
    /\ UNCHANGED <<pc, dryRun, publicRoot, plan, rawPlan, debugInfo, plannerError, phases,
                   execVars, spawnLog, dirs, files, result, failureError, outcome,
                   vCwd, vOutputDir, vRawPath, vResult, trackerCalls, procVars,
                   vpDefs, vpOriginal, vpOutputDir, vpResult, revVars, srvVars, svcVars>>

NextPlan == ValidateCall \/ RevalidateCall

SpecPlan == InitPlan /\ [][NextPlan]_vars

\* ---------------------------------------------------- prepareRevisionFiles
\* bound of the lists of a base record
MaxFiles == 2

\* x || d
Or(x, d) == IF Truthy(x) THEN x ELSE d

\* path.basename of a resolved absolute path
Basename(segs) == IF Len(segs) = 0 THEN <<>> ELSE segs[Len(segs)]

\* path.basename of a string as written: its last non-empty segment
BasenameOf(chars) ==
    Basename(SelectSeq(ParsePath(chars).segs, LAMBDA seg : seg # <<>>))

\* variant that does not look at seen
CreateRevisionFileDescriptor_NoSeen(source, fallbackId, seen, fs) ==
    LET targetPath == IF IsObject(source) /\ IsString(source.absolutePath)
                      THEN source.absolutePath.v ELSE <<>>
        absolutePath == Resolve(Cwd, ParsePath(targetPath))
    IN IF targetPath = <<>> THEN [descriptor |-> Null, seen |-> seen]
       ELSE IF absolutePath \notin DOMAIN fs THEN [descriptor |-> Null, seen |-> seen]
       ELSE IF fs[absolutePath].kind # "file" THEN [descriptor |-> Null, seen |-> seen]
       ELSE [descriptor |->
                [t |-> "object",
                 id |-> IF IsString(source.id) /\ Truthy(source.id) THEN source.id
                        ELSE fallbackId,
                 originalName |-> IF IsString(source.originalName) /\ Truthy(source.originalName)
                                  THEN source.originalName ELSE Str(Basename(absolutePath)),
                 absolutePath |-> absolutePath,
                 size |-> IF IsNumber(source.size) THEN source.size
                          ELSE Num(fs[absolutePath].size),
                 mimeType |-> IF IsString(source.mimeType) /\ Truthy(source.mimeType)
                              THEN source.mimeType ELSE Str(<<"guessed">>)],
             seen |-> seen \cup {absolutePath}]

\* createRevisionFileDescriptor (lines 61-101): the descriptor or null, and
\* the set seen as the call leaves it; a path that cannot be stat'ed or is
\* not a regular file gives null
CreateRevisionFileDescriptor(source, fallbackId, seen, fs) ==
    LET targetPath == IF IsObject(source) /\ IsString(source.absolutePath)
                      THEN source.absolutePath.v ELSE <<>>
        absolutePath == Resolve(Cwd, ParsePath(targetPath))
    IN IF targetPath = <<>> THEN [descriptor |-> Null, seen |-> seen]
       ELSE IF absolutePath \in seen THEN [descriptor |-> Null, seen |-> seen]
       ELSE IF absolutePath \notin DOMAIN fs THEN [descriptor |-> Null, seen |-> seen]
       ELSE IF fs[absolutePath].kind # "file" THEN [descriptor |-> Null, seen |-> seen]
       ELSE [descriptor |->
                [t |-> "object",
                 id |-> IF IsString(source.id) /\ Truthy(source.id) THEN source.id
                        ELSE fallbackId,
                 originalName |-> IF IsString(source.originalName) /\ Truthy(source.originalName)
                                  THEN source.originalName ELSE Str(Basename(absolutePath)),
                 absolutePath |-> absolutePath,
                 size |-> IF IsNumber(source.size) THEN source.size
                          ELSE Num(fs[absolutePath].size),
                 mimeType |-> IF IsString(source.mimeType) /\ Truthy(source.mimeType)
                              THEN source.mimeType ELSE Str(<<"guessed">>)],
             seen |-> seen \cup {absolutePath}]

\* the source built for a resolved output (lines 27-35)
OutputSource(output, i) ==
    [t |-> "object",
     id |-> Str(<<"output-", ToString(i)>>),
     originalName |-> IF Truthy(output.absolutePath)
                      THEN Str(BasenameOf(output.absolutePath.v))
                      ELSE Str(BasenameOf(Or(output.path, Str(<<"output-", ToString(i)>>)).v)),
     absolutePath |-> Or(output.absolutePath, output.path),
     size |-> IF IsNumber(output.size) THEN output.size ELSE Undefined,
     mimeType |-> Undefined]

\* the lists of a record: the array, or [] when it is not an array
UploadedFilesOf(record) ==
    IF IsArray(record.uploadedFiles) THEN record.uploadedFiles.v ELSE <<>>

ResolvedOutputsOf(record) ==
    IF IsObject(record.result) /\ IsArray(record.result.resolvedOutputs)
    THEN record.result.resolvedOutputs.v ELSE <<>>

\* the files a record may name and the file system they are looked up in
UploadedSource(chars, id) ==
    [t |-> "object", id |-> id, originalName |-> Str(<<"name">>), absolutePath |-> chars,
     size |-> Num(5), mimeType |-> Str(<<"image/png">>)]

UploadedSources ==
    { UploadedSource(Str(<<"/", "u", "/", "a">>), Str(<<"in-a">>)),
      UploadedSource(Str(<<"/", "u", "/", ".", "/", "a">>), Str(<<>>)),
      UploadedSource(Str(<<"/", "d">>), Str(<<"in-d">>)),
      UploadedSource(Undefined, Str(<<"in-none">>)),
      Null }

ResolvedOutput(exists, absolutePath, pth) ==
    [t |-> "object", exists |-> exists, absolutePath |-> absolutePath, path |-> pth,
     size |-> Num(7)]

RecordedOutputs ==
    { Null,
      ResolvedOutput(TRUE, Str(<<"/", "u", "/", "a">>), Str(<<"a">>)),
      ResolvedOutput(TRUE, Undefined, Str(<<"/", "o", "/", "b">>)),
      ResolvedOutput(FALSE, Str(<<"/", "o", "/", "b">>), Str(<<"b">>)),
      ResolvedOutput(TRUE, Str(<<"/", "m">>), Str(<<"m">>)) }

BaseRecords ==
    { [t |-> "object", uploadedFiles |-> up, result |-> res] :
        up \in {Undefined} \cup
               {Arr(q) : q \in UNION {[1..n -> UploadedSources] : n \in 0..MaxFiles}},
        res \in {Undefined} \cup
                {[t |-> "object", resolvedOutputs |-> Arr(q)] :
                    q \in UNION {[1..n -> RecordedOutputs] : n \in 0..MaxFiles}} }

RevisionFs ==
    (<<<<"u">>, <<"a">>>> :> [kind |-> "file", size |-> 5])
    @@ (<<<<"o">>, <<"b">>>> :> [kind |-> "file", size |-> 7])
    @@ (<<<<"d">>>> :> [kind |-> "directory", size |-> 0])

InitRevision ==
    /\ AgentInit
    /\ OutputIdle
    /\ PlanIdle
    /\ revRecord \in BaseRecords
    /\ revFs = RevisionFs
    /\ revCollected = <<>>
    /\ revSeen = {}
    /\ revIndex = 0
    /\ revPc = "inputs"
    /\ ServerIdle
    /\ RequestsIdle
    /\ DescribeIdle
    /\ FailureIdle
    /\ StreamsIdle
    /\ SpawnIdle

\* one turn of the loop over the uploaded files (lines 13-19), or its end
RevisionInput ==
    /\ revPc = "inputs"
    /\ LET inputs == UploadedFilesOf(revRecord) IN
       IF revIndex < Len(inputs)
       THEN LET r == CreateRevisionFileDescriptor(inputs[revIndex + 1],
                        Str(<<"input-", ToString(revIndex)>>), revSeen, revFs)
            IN /\ revCollected' = IF r.descriptor # Null
                                  THEN Append(revCollected, r.descriptor) ELSE revCollected
               /\ revSeen' = r.seen
               /\ revIndex' = revIndex + 1
               /\ UNCHANGED revPc
       ELSE /\ revPc' = "outputs"
            /\ revIndex' = 0
            /\ UNCHANGED <<revCollected, revSeen>>
    /\ UNCHANGED <<pc, dryRun, publicRoot, plan, rawPlan, debugInfo, plannerError, phases,
                   execVars, spawnLog, dirs, files, result, failureError, outcome,
                   vCwd, vOutputDir, vRawPath, vResult, trackerCalls, procVars, planVars,
                   revRecord, revFs, srvVars, svcVars>>

\* one turn of the loop over the resolved outputs (lines 21-43), or the
\* return of collected
RevisionOutput ==
    /\ revPc = "outputs"
    /\ LET outputs == ResolvedOutputsOf(revRecord) IN
       IF revIndex < Len(outputs)
       THEN LET output == outputs[revIndex + 1] IN
            IF ~IsObject(output) \/ ~output.exists
            THEN /\ revIndex' = revIndex + 1
                 /\ UNCHANGED <<revCollected, revSeen, revPc>>
            ELSE LET r == CreateRevisionFileDescriptor(OutputSource(output, revIndex),
                             Str(<<"output-", ToString(revIndex)>>), revSeen, revFs)
                 IN /\ revCollected' = IF r.descriptor # Null
                                       THEN Append(revCollected, r.descriptor)
                                       ELSE revCollected
                    /\ revSeen' = r.seen
                    /\ revIndex' = revIndex + 1
                    /\ UNCHANGED revPc
       ELSE /\ revPc' = "done"
            /\ UNCHANGED <<revCollected, revSeen, revIndex>>
    /\ UNCHANGED <<pc, dryRun, publicRoot, plan, rawPlan, debugInfo, plannerError, phases,
                   execVars, spawnLog, dirs, files, result, failureError, outcome,
                   vCwd, vOutputDir, vRawPath, vResult, trackerCalls, procVars, planVars,
                   revRecord, revFs, srvVars, svcVars>>

NextRevision == RevisionInput \/ RevisionOutput

SpecRevision == InitRevision /\ [][NextRevision]_vars

\* --------------------------------------------------------- MediaAgentServer
\* the variables of runTask and of the executor, which the request handler
\* of this section sees only through the way runTask settles
runVars == <<pc, dryRun, publicRoot, plan, rawPlan, debugInfo, plannerError, phases, execVars,
             spawnLog, dirs, files, result, failureError, outcome, trackerCalls, procVars>>

\* obj[f] of an object literal: undefined when the key is absent
Prop(obj, f) == IF f \in DOMAIN obj THEN obj[f] ELSE Undefined

\* error instanceof MediaAgentTaskError
IsAgentError(error) == error.name = Str(<<"MediaAgentTaskError">>)

\* createRequestPhase(task, files, options) with the two meta fields the
\* handler adds (lines 1720-1722)
RequestPhase(task) ==
    [id |-> "request", status |-> "success", task |-> task,
     meta |-> [parentSessionId |-> Null, revision |-> FALSE]]

ServerPhase(id, status) == [id |-> id, status |-> status]

\* the ways agent.runTask can settle
AgentOutcomes ==
    { [kind |-> "resolved",
       value |-> [plan |-> Obj("plan"), rawPlan |-> rp, result |-> Obj("result"),
                  phases |-> <<ServerPhase("plan", "success"),
                               ServerPhase("execute", "success"),
                               ServerPhase("summarize", "success")>>,
                  debug |-> dbg]] :
        rp \in {Undefined, Obj("raw")}, dbg \in {Undefined, Obj("debug")} }
    \cup
    { [kind |-> "thrown",
       error |-> MediaAgentTaskError("Plan phase failed",
                    <<ServerPhase("plan", "failed"), ServerPhase("execute", "pending"),
                      ServerPhase("summarize", "pending")>>,
                    PlainError("Error", Str(<<"Unknown command: x">>)), ctx)] :
        ctx \in { [rawPlan |-> Null, debug |-> Null, responseText |-> Str(<<"text">>)],
                  [rawPlan |-> Obj("raw"), debug |-> Obj("debug"), responseText |-> Null] } }
    \cup
    { [kind |-> "thrown",
       error |-> MediaAgentTaskError("Execution phase failed",
                    <<ServerPhase("plan", "success"), ServerPhase("execute", "failed"),
                      ServerPhase("summarize", "pending")>>,
                    PlainError("Error", Str(<<"spawn ENOENT">>)), ctx)] :
        ctx \in { [plan |-> Obj("plan"), rawPlan |-> Obj("raw"), debug |-> Null],
                  [plan |-> Obj("plan"), rawPlan |-> Null, debug |-> Obj("debug")] } }
    \cup
    { [kind |-> "thrown", error |-> PlainError("TypeError", m)] :
        m \in {Str(<<"boom">>), Str(<<>>)} }

\* the requests: body.task, req.agentSession, ?debug, and whether the
\* request names a log channel
TaskRequests ==
    { [task |-> t, session |-> ss, debug |-> d, logChannel |-> lc] :
        t \in {Undefined, Str(<<" ">>), Str(<<" ", "convert">>)},
        ss \in {Undefined, Obj("session")},
        d \in BOOLEAN, lc \in BOOLEAN }

\* (req.body?.task || '').trim()
TaskOf(request) ==
    Str(TrimPieces(IF Truthy(request.task) THEN request.task.v ELSE <<>>))

\* the log channel receives entries only when the request names one
LogSend(log, request, entries) == IF request.logChannel THEN log \o entries ELSE log

\* res.status(code).json(body)
Respond(code, body) == [code |-> code, body |-> body]

\* the payload of the success branch (lines 1741-1756 and 1763-1776):
\* recorded and sent with the same plan, rawPlan, result and phases
SuccessPayload(request, agentResponse) ==
    [status |-> "success",
     task |-> TaskOf(request),
     plan |-> agentResponse.plan,
     rawPlan |-> Coalesce(agentResponse.rawPlan, agentResponse.plan),
     result |-> agentResponse.result,
     phases |-> <<RequestPhase(TaskOf(request))>> \o agentResponse.phases]

\* the payload of the catch block (lines 1778-1804 and 1813-1828)
FailurePayload(request, error) ==
    LET isAgentError == IsAgentError(error)
        errorContext == IF isAgentError /\ error.context # Undefined
                        THEN error.context ELSE [k \in {} |-> Null]
        planPayload == IF isAgentError THEN Coalesce(Prop(errorContext, "plan"), Null)
                       ELSE Null
    IN [status |-> "failed",
        task |-> TaskOf(request),
        error |-> Str(<<"Task execution failed.">>),
        detail |-> IF Truthy(error.message) THEN error.message
                   ELSE Str(<<"Task execution failed.">>),
        statusCode |-> IF isAgentError THEN 422 ELSE 500,
        phases |-> <<RequestPhase(TaskOf(request))>>
                   \o (IF isAgentError THEN error.phases ELSE <<>>),
        plan |-> planPayload,
        rawPlan |-> IF isAgentError THEN Coalesce(Prop(errorContext, "rawPlan"), planPayload)
                    ELSE Null,
        result |-> IF isAgentError THEN Coalesce(Prop(errorContext, "result"), Null)
                   ELSE Null,
        responseText |-> IF isAgentError
                         THEN Coalesce(Prop(errorContext, "responseText"), Null)
                         ELSE Null,
        debugContext |-> Coalesce(Prop(errorContext, "debug"), Null)]

\* the debug field of a response: present only in debug mode
ResponseDebug(request, value) ==
    IF request.debug THEN Coalesce(value, Null) ELSE Undefined

InitServer ==
    /\ AgentInit
    /\ OutputIdle
    /\ PlanIdle
    /\ RevisionIdle
    /\ srvRequest \in TaskRequests
    /\ srvAgent = Null
    /\ srvCaught = Null
    /\ srvRecords = <<>>
    /\ srvLog = <<>>
    /\ srvResponses = <<>>
    /\ srvPc = "received"
    /\ RequestsIdle
    /\ DescribeIdle
    /\ FailureIdle
    /\ StreamsIdle
    /\ SpawnIdle

\* handleTaskRequest up to the call of agent.runTask (lines 1667-1729): an
\* empty task is answered 400, a missing session 500
ReceiveTaskRequest ==
    /\ srvPc = "received"
    /\ IF ~Truthy(TaskOf(srvRequest))
       THEN /\ srvResponses' = Append(srvResponses,
                                  Respond(400, [error |-> Str(<<"task field is required.">>)]))
            /\ srvLog' = LogSend(srvLog, srvRequest, <<"message", "close:error">>)
            /\ srvPc' = "done"
       ELSE IF ~Truthy(srvRequest.session)
       THEN /\ srvResponses' = Append(srvResponses,
                                  Respond(500, [error |-> Str(<<"Session was not initialized.">>)]))
            /\ srvLog' = LogSend(srvLog, srvRequest, <<"error", "close:error">>)
            /\ srvPc' = "done"
       ELSE /\ srvLog' = LogSend(srvLog, srvRequest, <<"message">>)
            /\ srvPc' = "running"
            /\ UNCHANGED srvResponses
    /\ UNCHANGED <<runVars, svcVars, vCwd, vOutputDir, vRawPath, vResult, planVars, revVars,
                   srvRequest, srvAgent, srvCaught, srvRecords>>

\* agent.runTask settles: on a value the success record is built and its
\* write begins (lines 1739-1757); on an error the catch block builds the
\* failure record and its write begins (lines 1778-1806)
AgentSettles(o) ==
    /\ srvPc = "running"
    /\ srvAgent' = o
    /\ IF o.kind = "resolved"
       THEN /\ srvPc' = "writing_success"
            /\ UNCHANGED srvCaught
       ELSE /\ srvPc' = "writing_failed"
            /\ srvCaught' = o.error
    /\ UNCHANGED <<runVars, svcVars, vCwd, vOutputDir, vRawPath, vResult, planVars, revVars,
                   srvRequest, srvRecords, srvLog, srvResponses>>

\* the error fs.writeFile rejects with
WriteError == PlainError("Error", Str(<<"ENOSPC: no space left on device">>))

\* recordStore.writeSessionRecord settles (SessionRecordStore.ts 33-37).
\* After the success record: the response 200, or on a rejected write the
\* catch block with the write's error.  After the failure record: the
\* response 422 or 500, or on a rejected write the handler's promise rejects
\* with nothing sent.
WriteSettles(written) ==
    /\ srvPc \in {"writing_success", "writing_failed"}
    /\ IF srvPc = "writing_success"
       THEN LET payload == SuccessPayload(srvRequest, srvAgent.value) IN
            IF written
            THEN /\ srvRecords' = Append(srvRecords, payload)
                 /\ srvLog' = LogSend(srvLog, srvRequest, <<"message", "close:success">>)
                 /\ srvResponses' = Append(srvResponses,
                        Respond(200, payload @@
                            [debug |-> ResponseDebug(srvRequest, srvAgent.value.debug)]))
                 /\ srvPc' = "done"
                 /\ UNCHANGED srvCaught
            ELSE /\ srvCaught' = WriteError
                 /\ srvPc' = "writing_failed"
                 /\ UNCHANGED <<srvRecords, srvLog, srvResponses>>
       ELSE LET payload == FailurePayload(srvRequest, srvCaught) IN
            IF written
            THEN /\ srvRecords' = Append(srvRecords, payload)
                 /\ srvLog' = LogSend(srvLog, srvRequest, <<"error", "close:error">>)
                 /\ srvResponses' = Append(srvResponses,
                        Respond(payload.statusCode, payload @@
                            [debug |-> ResponseDebug(srvRequest, payload.debugContext)]))
                 /\ srvPc' = "done"
                 /\ UNCHANGED srvCaught
            ELSE /\ srvPc' = "rejected"
                 /\ UNCHANGED <<srvCaught, srvRecords, srvLog, srvResponses>>
    /\ UNCHANGED <<runVars, svcVars, vCwd, vOutputDir, vRawPath, vResult, planVars, revVars,
                   srvRequest, srvAgent>>

\* the error middleware of the application (lines 1585-1596), reached only
\* under a router that forwards a rejected handler to next(err); under a
\* router that does not, the request stays unanswered
ErrorMiddleware ==
    /\ srvPc = "rejected"
    /\ srvResponses' = Append(srvResponses,
                          Respond(500, [error |-> Str(<<"Server error occurred.">>),
                                        detail |-> WriteError.message]))
    /\ srvPc' = "done"
    /\ UNCHANGED <<runVars, svcVars, vCwd, vOutputDir, vRawPath, vResult, planVars, revVars,
                   srvRequest, srvAgent, srvCaught, srvRecords, srvLog>>

NextServer ==
    \/ ReceiveTaskRequest
    \/ \E o \in AgentOutcomes : AgentSettles(o)
    \/ \E written \in BOOLEAN : WriteSettles(written)
    \/ ErrorMiddleware

SpecServer == InitServer /\ [][NextServer]_vars

\* ------------------------------ SessionRecordStore and handleRevisionRequest
\* The record store is a map from the session id a file is named after to
\* the record the file holds (getSessionRecordPath, writeSessionRecord).
\* Session ids and texts are strings of pieces.
MaxChain == 27

\* the bound of the loop of collectRevisionHistory
SafetyLimit == 25

\* the i-th session id of a store: a string of i pieces
SessionId(i) == Str([k \in 1..i |-> "s"])

\* an id no file is named after
MissingId == Str(<<"m">>)

\* createSessionId: an id no stored record has
NewSessionId(r) == SessionId(MaxChain + r)

\* SessionRecordStore.buildSessionRecord, on the fields the revision code reads
BuildSessionRecord(payload) ==
    [id |-> payload.sessionId,
     task |-> payload.task,
     status |-> payload.status,
     parentSessionId |-> Coalesce(Prop(payload, "parentSessionId"), Null),
     complaintContext |-> Coalesce(Prop(payload, "complaintContext"), Null),
     complaints |-> IF IsArray(Prop(payload, "complaints")) THEN payload.complaints
                    ELSE Arr(<<>>)]

\* readSessionRecord: the stored record, or null when there is no file
ReadSessionRecord(store, sessionId) ==
    IF sessionId.v \in DOMAIN store THEN store[sessionId.v] ELSE Null

\* writeSessionRecord: the file named after record.id now holds the record
WriteSessionRecord(store, record) ==
    [k \in (DOMAIN store) \cup {record.id.v} |->
        IF k = record.id.v THEN record ELSE store[k]]

\* variant of the loop condition without the visited set
LoopContinues_NoVisited(current, visited, safetyCounter) ==
    /\ current # Null
    /\ safetyCounter < SafetyLimit

\* the condition of the while loop of collectRevisionHistory
LoopContinues(current, visited, safetyCounter) ==
    /\ current # Null
    /\ current.id \notin visited
    /\ safetyCounter < SafetyLimit

\* the record of the i-th of the n sessions of a chain: the first one is the
\* original request unless tail names a parent for it, every later one a
\* revision of the one before, and every one but the newest holds the
\* complaint entry its revision appended
ChainRecord(i, n, tail) ==
    BuildSessionRecord(
        [sessionId |-> SessionId(i),
         task |-> Str(<<"task">> \o SessionId(i).v),
         status |-> Str(<<"success">>),
         parentSessionId |-> IF i > 1 THEN SessionId(i - 1) ELSE tail,
         complaintContext |->
            IF i > 1 \/ tail # Null
            THEN Obj([sessionId |-> IF i > 1 THEN SessionId(i - 1) ELSE tail,
                      message |-> Str(<<"fix">> \o SessionId(i).v)])
            ELSE Null,
         complaints |->
            IF i < n
            THEN Arr(<<Obj([message |-> Str(<<"fix">> \o SessionId(i + 1).v),
                            followUpSessionId |-> SessionId(i + 1),
                            status |-> Str(<<"success">>)])>>)
            ELSE Arr(<<>>)])

ChainStore(n, tail) ==
    [k \in {SessionId(i).v : i \in 1..n} |-> ChainRecord(Len(k), n, tail)]

\* the stores: a chain of n sessions whose oldest record has no parent, a
\* parent without a file, or a parent in the chain (a cycle)
ChainStores(maxLen) ==
    {ChainStore(n, Null) : n \in 1..maxLen}
        \cup {ChainStore(n, MissingId) : n \in 1..maxLen}
        \cup UNION {{ChainStore(n, SessionId(j)) : j \in 1..n} : n \in 1..maxLen}

\* req.body of a revision request: sessionId names the newest record of the
\* store, a record that does not exist, or is blank or absent
RevisionRequests(store) ==
    [sessionId : {SessionId(Cardinality(DOMAIN store)), MissingId, Str(<<" ">>), Undefined},
     complaint : {Str(<<"c">>), Str(<<" ", "a", "|", "b", "\n">>), Str(<<" ">>), Undefined}]

\* extractComplaintMessage, the loop over record.complaints from the end
RECURSIVE LastComplaintMessage(_, _)
LastComplaintMessage(complaints, i) ==
    IF i = 0 THEN Str(<<>>)
    ELSE IF /\ Truthy(complaints[i])
            /\ IsString(Prop(complaints[i].v, "message"))
            /\ TrimPieces(complaints[i].v.message.v) # <<>>
         THEN Str(TrimPieces(complaints[i].v.message.v))
         ELSE LastComplaintMessage(complaints, i - 1)

\* extractComplaintMessage (part_012 139-155)
ExtractComplaintMessage(record) ==
    IF record = Null THEN Str(<<>>)
    ELSE LET direct == IF /\ record.complaintContext # Null
                          /\ IsString(Prop(record.complaintContext.v, "message"))
                       THEN Str(TrimPieces(record.complaintContext.v.message.v))
                       ELSE Str(<<>>)
             complaints == IF IsArray(record.complaints) THEN record.complaints.v ELSE <<>>
         IN  IF Truthy(direct) THEN direct
             ELSE LastComplaintMessage(complaints, Len(complaints))

\* formatTableCell: a blank value reads N/A, a bar is escaped and a line
\* break becomes <br>
FormatTableCell(value) ==
    IF ~Truthy(value) THEN Str(<<"N/A">>)
    ELSE Str([k \in 1..Len(value.v) |->
                IF value.v[k] = "|" THEN "\\|"
                ELSE IF value.v[k] = "\n" THEN "<br>"
                ELSE value.v[k]])

\* the rows of buildRevisionHistoryTable from row i on (1-based), with the
\* value remainingRevisions has when the map callback reaches that row.  A
\* row is kept as its version cell and its complaint cell; the version
\* label holds neither a bar nor a line break, so formatTableCell leaves it
\* as it is.  The outputs and commands cells summarise the stored plan and
\* result, which this model of the store does not carry.
RECURSIVE TableRows(_, _, _, _)
TableRows(historyRecords, latestComplaint, i, remainingRevisions) ==
    IF i > Len(historyRecords) THEN <<>>
    ELSE LET record == historyRecords[i]
             hasParent == Truthy(record.parentSessionId)
             versionLabel ==
                IF hasParent
                THEN [label |-> "Rev.", n |-> remainingRevisions, latest |-> i = 1]
                ELSE [label |-> "Original", n |-> 0, latest |-> FALSE]
             complaintText ==
                IF i = 1 /\ IsString(latestComplaint) /\ TrimPieces(latestComplaint.v) # <<>>
                THEN Str(TrimPieces(latestComplaint.v))
                ELSE ExtractComplaintMessage(record)
         IN  <<[version |-> versionLabel,
                complaint |-> FormatTableCell(Or(complaintText, Str(<<"N/A">>)))]>>
             \o TableRows(historyRecords, latestComplaint, i + 1,
                          IF hasParent THEN remainingRevisions - 1 ELSE remainingRevisions)

\* buildRevisionHistoryTable (part_012 103-137): the header line is fixed
BuildRevisionHistoryTable(historyRecords, latestComplaint) ==
    IF Len(historyRecords) = 0 THEN Str(<<"No history yet.">>)
    ELSE LET revisionCount ==
                Cardinality({k \in 1..Len(historyRecords) :
                                Truthy(historyRecords[k].parentSessionId)})
         IN  [t |-> "table",
              rows |-> TableRows(historyRecords, latestComplaint, 1, revisionCount)]

\* composeRevisionTask: the five sections that are joined by blank lines;
\* the second holds the original request, the fourth the history table
ComposeRevisionTask(originalTask, complaint, historyRecords) ==
    Str(<<"This is a revision request.",
          [heading |-> "Original request:",
           text |-> Or(originalTask, Str(<<"Original request is not recorded.">>))],
          "Previous revision history:",
          BuildRevisionHistoryTable(historyRecords, complaint),
          "Produce a new deliverable that addresses the issues noted.">>)

\* what the actions of this section leave alone
rqOthers == <<runVars, vCwd, vOutputDir, vRawPath, vResult, planVars, revVars, srvVars, doVars, dfVars, lsVars, spVars>>

\* typeof x === 'string' ? x.trim() : ''
TrimmedOrEmpty(x) == IF IsString(x) THEN Str(TrimPieces(x.v)) ELSE Str(<<>>)

\* handleRevisionRequest up to the call of collectRevisionHistory
\* (MediaAgentServer.ts 1837-1891): the checks of the body, then the read of
\* the base record
ReceiveRevisionRequest(r, body) ==
    /\ rqPc[r] = "idle"
    /\ rqBody' = [rqBody EXCEPT ![r] = body]
    /\ LET baseSessionId == TrimmedOrEmpty(body.sessionId)
           complaint == TrimmedOrEmpty(body.complaint)
           baseRecord == ReadSessionRecord(rqStore, baseSessionId)
       IN  IF ~Truthy(baseSessionId)
           THEN /\ rqResponse' = [rqResponse EXCEPT ![r] =
                        [status |-> 400, error |-> "sessionId is required."]]
                /\ rqPc' = [rqPc EXCEPT ![r] = "done"]
                /\ UNCHANGED <<rqBase, rqCurrent>>
           ELSE IF ~Truthy(complaint)
           THEN /\ rqResponse' = [rqResponse EXCEPT ![r] =
                        [status |-> 400, error |-> "complaint field is required."]]
                /\ rqPc' = [rqPc EXCEPT ![r] = "done"]
                /\ UNCHANGED <<rqBase, rqCurrent>>
           ELSE IF baseRecord = Null
           THEN /\ rqResponse' = [rqResponse EXCEPT ![r] =
                        [status |-> 404, error |-> "Referenced session was not found."]]
                /\ rqPc' = [rqPc EXCEPT ![r] = "done"]
                /\ UNCHANGED <<rqBase, rqCurrent>>
           ELSE /\ rqBase' = [rqBase EXCEPT ![r] = baseRecord]
                /\ rqCurrent' = [rqCurrent EXCEPT ![r] = baseRecord]
                /\ rqPc' = [rqPc EXCEPT ![r] = "collecting"]
                /\ UNCHANGED rqResponse
    /\ UNCHANGED <<rqStore, rqHistory, rqVisited, rqCounter, rqTask, rqRecord, rqAppend>>
    /\ UNCHANGED rqOthers

\* one turn of the while loop of collectRevisionHistory
\* (SessionRecordStore.ts 73-85), or its end when the condition fails
CollectRevisionHistory(r) ==
    /\ rqPc[r] = "collecting"
    /\ IF LoopContinues(rqCurrent[r], rqVisited[r], rqCounter[r])
       THEN /\ rqHistory' = [rqHistory EXCEPT ![r] = Append(@, rqCurrent[r])]
            /\ rqVisited' = [rqVisited EXCEPT ![r] = @ \cup {rqCurrent[r].id}]
            /\ rqCounter' = [rqCounter EXCEPT ![r] = @ + 1]
            /\ IF ~Truthy(rqCurrent[r].parentSessionId)
               THEN /\ rqPc' = [rqPc EXCEPT ![r] = "collected"]
                    /\ UNCHANGED rqCurrent
               ELSE LET parent == ReadSessionRecord(rqStore, rqCurrent[r].parentSessionId)
                    IN  IF parent = Null
                        THEN /\ rqPc' = [rqPc EXCEPT ![r] = "collected"]
                             /\ UNCHANGED rqCurrent
                        ELSE /\ rqCurrent' = [rqCurrent EXCEPT ![r] = parent]
                             /\ UNCHANGED rqPc
       ELSE /\ rqPc' = [rqPc EXCEPT ![r] = "collected"]
            /\ UNCHANGED <<rqHistory, rqVisited, rqCounter, rqCurrent>>
    /\ UNCHANGED <<rqStore, rqBody, rqBase, rqTask, rqRecord, rqAppend, rqResponse>>
    /\ UNCHANGED rqOthers

\* handleRevisionRequest from the return of collectRevisionHistory to the
\* await of agent.runTask (1892-1925)
ComposeRevision(r) ==
    /\ rqPc[r] = "collected"
    /\ LET historyRecords == rqHistory[r]
           complaint == TrimmedOrEmpty(rqBody[r].complaint)
           originalTask ==
              IF Len(historyRecords) > 0
              THEN Or(historyRecords[Len(historyRecords)].task, Str(<<>>))
              ELSE Or(rqBase[r].task, Str(<<>>))
       IN  rqTask' = [rqTask EXCEPT ![r] =
                        ComposeRevisionTask(originalTask, complaint, historyRecords)]
    /\ rqPc' = [rqPc EXCEPT ![r] = "running"]
    /\ UNCHANGED <<rqStore, rqBody, rqBase, rqHistory, rqVisited, rqCurrent, rqCounter,
                   rqRecord, rqAppend, rqResponse>>
    /\ UNCHANGED rqOthers

\* agent.runTask settles: the handler builds the record of the new session
\* and calls writeSessionRecord (1926-1947 on success, 1974-2001 in the
\* catch block)
RevisionAgentSettles(r, status) ==
    /\ rqPc[r] = "running"
    /\ rqRecord' = [rqRecord EXCEPT ![r] =
            BuildSessionRecord(
                [sessionId |-> NewSessionId(r),
                 task |-> rqTask[r],
                 status |-> Str(<<status>>),
                 parentSessionId |-> TrimmedOrEmpty(rqBody[r].sessionId),
                 complaintContext |->
                    Obj([sessionId |-> TrimmedOrEmpty(rqBody[r].sessionId),
                         message |-> TrimmedOrEmpty(rqBody[r].complaint)])])]
    /\ rqPc' = [rqPc EXCEPT ![r] = "writing"]
    /\ UNCHANGED <<rqStore, rqBody, rqBase, rqHistory, rqVisited, rqCurrent, rqCounter,
                   rqTask, rqAppend, rqResponse>>
    /\ UNCHANGED rqOthers

\* the write of the new session's record is done; appendComplaintEntry
\* starts its read
RevisionRecordWritten(r) ==
    /\ rqPc[r] = "writing"
    /\ rqStore' = WriteSessionRecord(rqStore, rqRecord[r])
    /\ rqPc' = [rqPc EXCEPT ![r] = "appending"]
    /\ UNCHANGED <<rqBody, rqBase, rqHistory, rqVisited, rqCurrent, rqCounter,
                   rqTask, rqRecord, rqAppend, rqResponse>>
    /\ UNCHANGED rqOthers

\* the entry handleRevisionRequest appends to the base record
ComplaintEntry(r) ==
    Obj([message |-> TrimmedOrEmpty(rqBody[r].complaint),
         followUpSessionId |-> NewSessionId(r),
         status |-> rqRecord[r].status])

\* the response of handleRevisionRequest (1960-1973, 2008-2023)
RevisionResponse(r) ==
    [status |-> IF rqRecord[r].status = Str(<<"success">>) THEN 200 ELSE 422,
     sessionId |-> NewSessionId(r),
     parentSessionId |-> TrimmedOrEmpty(rqBody[r].sessionId),
     complaint |-> TrimmedOrEmpty(rqBody[r].complaint)]

\* appendComplaintEntry up to its call of writeSessionRecord
\* (SessionRecordStore.ts 53-60): the read of the record is done and the
\* entry is pushed on a copy of its complaints
AppendComplaintRead(r) ==
    /\ rqPc[r] = "appending"
    /\ LET record == ReadSessionRecord(rqStore, TrimmedOrEmpty(rqBody[r].sessionId))
       IN  IF record = Null
           THEN /\ rqPc' = [rqPc EXCEPT ![r] = "done"]
                /\ rqResponse' = [rqResponse EXCEPT ![r] = RevisionResponse(r)]
                /\ UNCHANGED rqAppend
           ELSE /\ rqAppend' = [rqAppend EXCEPT ![r] =
                        [record EXCEPT !.complaints =
                            Arr(Append(IF IsArray(record.complaints)
                                       THEN record.complaints.v ELSE <<>>,
                                       ComplaintEntry(r)))]]
                /\ rqPc' = [rqPc EXCEPT ![r] = "append_writing"]
                /\ UNCHANGED rqResponse
    /\ UNCHANGED <<rqStore, rqBody, rqBase, rqHistory, rqVisited, rqCurrent, rqCounter,
                   rqTask, rqRecord>>
    /\ UNCHANGED rqOthers

\* the write of appendComplaintEntry is done and the handler answers
AppendComplaintWritten(r) ==
    /\ rqPc[r] = "append_writing"
    /\ rqStore' = WriteSessionRecord(rqStore, rqAppend[r])
    /\ rqPc' = [rqPc EXCEPT ![r] = "done"]
    /\ rqResponse' = [rqResponse EXCEPT ![r] = RevisionResponse(r)]
    /\ UNCHANGED <<rqBody, rqBase, rqHistory, rqVisited, rqCurrent, rqCounter, rqTask,
                   rqRecord, rqAppend>>
    /\ UNCHANGED rqOthers

\* one revision request against a store that holds a chain of sessions
InitHistory ==
    /\ AgentInit
    /\ OutputIdle
    /\ PlanIdle
    /\ RevisionIdle
    /\ ServerIdle
    /\ rqStore \in ChainStores(MaxChain)
    /\ rqPc = [r \in Requests |-> "idle"]
    /\ rqBody = [r \in Requests |-> Null]
    /\ rqBase = [r \in Requests |-> Null]
    /\ rqHistory = [r \in Requests |-> <<>>]
    /\ rqVisited = [r \in Requests |-> {}]
    /\ rqCurrent = [r \in Requests |-> Null]
    /\ rqCounter = [r \in Requests |-> 0]
    /\ rqTask = [r \in Requests |-> Null]
    /\ rqRecord = [r \in Requests |-> Null]
    /\ rqAppend = [r \in Requests |-> Null]
    /\ rqResponse = [r \in Requests |-> Null]
    /\ DescribeIdle
    /\ FailureIdle
    /\ StreamsIdle
    /\ SpawnIdle

\* the steps of the handler of request r
RevisionRequestStep(r) ==
    \/ \E body \in RevisionRequests(rqStore) : ReceiveRevisionRequest(r, body)
    \/ CollectRevisionHistory(r)
    \/ ComposeRevision(r)
    \/ \E status \in {"success", "failed"} : RevisionAgentSettles(r, status)
    \/ RevisionRecordWritten(r)
    \/ AppendComplaintRead(r)
    \/ AppendComplaintWritten(r)

NextHistory == RevisionRequestStep(1)

SpecHistory == InitHistory /\ [][NextHistory]_vars

\* the loop of collectRevisionHistory runs on: each await of
\* readSessionRecord inside it settles (SessionRecordStore.ts 73-85)
SpecHistoryLive ==
    InitHistory /\ [][NextHistory]_vars /\ WF_vars(CollectRevisionHistory(1))

\* the revision requests of MaxRequests clients against the newest session
\* of a short chain, their handlers interleaved at every await
InitConcurrent ==
    /\ AgentInit
    /\ OutputIdle
    /\ PlanIdle
    /\ RevisionIdle
    /\ ServerIdle
    /\ rqStore \in {ChainStore(n, Null) : n \in 1..MaxRequests}
    /\ rqPc = [r \in Requests |-> "idle"]
    /\ rqBody = [r \in Requests |-> Null]
    /\ rqBase = [r \in Requests |-> Null]
    /\ rqHistory = [r \in Requests |-> <<>>]
    /\ rqVisited = [r \in Requests |-> {}]
    /\ rqCurrent = [r \in Requests |-> Null]
    /\ rqCounter = [r \in Requests |-> 0]
    /\ rqTask = [r \in Requests |-> Null]
    /\ rqRecord = [r \in Requests |-> Null]
    /\ rqAppend = [r \in Requests |-> Null]
    /\ rqResponse = [r \in Requests |-> Null]
    /\ DescribeIdle
    /\ FailureIdle
    /\ StreamsIdle
    /\ SpawnIdle

NextConcurrent == \E r \in Requests : RevisionRequestStep(r)

SpecConcurrent == InitConcurrent /\ [][NextConcurrent]_vars

\* ------------------------------------------ CommandExecutor.describeOutputs
MaxOutputs == 1

\* the public root of the calls, and a directory beside it
PublicDir == <<<<"p">>>>
OtherDir == <<<<"q">>>>

\* the outputs a step may declare: a file under the public root that
\* exists, one that does not, a file outside the root, and a file under the
\* root whose name starts with two dots
DeclaredOutputs ==
    { [path |-> [abs |-> TRUE, segs |-> PublicDir \o <<<<"a">>>>], description |-> "a"],
      [path |-> [abs |-> TRUE, segs |-> PublicDir \o <<<<"b">>>>], description |-> "b"],
      [path |-> [abs |-> TRUE, segs |-> OtherDir \o <<<<"a">>>>], description |-> "c"],
      [path |-> [abs |-> TRUE, segs |-> PublicDir \o <<<<".", ".", "d">>>>],
       description |-> "d"] }

\* the steps of a plan, as far as collectOutputs reads them
DescribedSteps ==
    UNION {[1..n -> [outputs : UNION {[1..k -> DeclaredOutputs] : k \in 0..MaxOutputs}]] :
              n \in 1..MaxPlanSteps}

\* the files on disk when describeOutputs runs, with their sizes
DescribedFiles ==
    LET all == [f \in {PublicDir \o <<<<"a">>>>, OtherDir \o <<<<"a">>>>,
                       PublicDir \o <<<<".", ".", "d">>>>} |-> 4 + Len(f[2])]
    IN  {all, [f \in {OtherDir \o <<<<"a">>>>} |-> 5]}

doOthers == <<runVars, vCwd, vOutputDir, vRawPath, vResult, planVars, revVars, srvVars, rqVars, dfVars, lsVars, spVars>>

InitDescribe ==
    /\ AgentInit
    /\ OutputIdle
    /\ PlanIdle
    /\ RevisionIdle
    /\ ServerIdle
    /\ RequestsIdle
    /\ doSteps \in DescribedSteps
    /\ doRoot \in {Null, Obj(PublicDir)}
    /\ doFs \in DescribedFiles
    /\ doResult = Null
    /\ FailureIdle
    /\ StreamsIdle
    /\ SpawnIdle

\* execute, lines 123-125: resolvedOutputs = describeOutputs(collectOutputs(
\* plan.steps), publicRoot)
DescribeOutputsCall ==
    /\ doResult = Null
    /\ doResult' = Arr(DescribeOutputs(Cwd, CollectOutputs(doSteps), doRoot, doFs))
    /\ UNCHANGED <<doSteps, doRoot, doFs>>
    /\ UNCHANGED doOthers

NextDescribe == DescribeOutputsCall

SpecDescribe == InitDescribe /\ [][NextDescribe]_vars

\* -------------------------------------------- describeExecutionFailure alone
\* the step results a CommandExecutionResult may hold
StepResultShapes ==
    [command : {"ffmpeg", "magick"},
     status : {"executed", "skipped"},
     exitCode : {Null, Num(0), Num(2)},
     timedOut : BOOLEAN]

\* the results describeExecutionFailure may be given: null, or a result
\* with a top-level exit code and timeout flag and up to MaxPlanSteps steps
ExecutionResultShapes ==
    {Null} \cup
    [exitCode : {Null, Num(0), Num(3)},
     timedOut : BOOLEAN,
     steps : UNION {[1..n -> StepResultShapes] : n \in 0..MaxPlanSteps}]

dfOthers == <<runVars, vCwd, vOutputDir, vRawPath, vResult, planVars, revVars, srvVars, rqVars,
              doVars, lsVars, spVars>>

InitFailure ==
    /\ AgentInit
    /\ OutputIdle
    /\ PlanIdle
    /\ RevisionIdle
    /\ ServerIdle
    /\ RequestsIdle
    /\ DescribeIdle
    /\ dfResult \in ExecutionResultShapes
    /\ dfMessage = Null
    /\ StreamsIdle
    /\ SpawnIdle

\* runTask, lines 101-102: the message of the logical failure
DescribeExecutionFailureCall ==
    /\ dfMessage = Null
    /\ dfMessage' = DescribeExecutionFailure(dfResult)
    /\ UNCHANGED dfResult
    /\ UNCHANGED dfOthers

NextFailure == DescribeExecutionFailureCall

SpecFailure == InitFailure /\ [][NextFailure]_vars

\* ---------------------------------------------------------- LogStreamManager
\* streams maps a channel id to an entry {res, heartbeat, closed}; the entry
\* of subscriber c is lsEntry[c] and lsStreams[ch] is the subscriber whose
\* entry the map holds for ch (0 for none).  lsTrace[c] lists what was done
\* to the response of c: writes, the marking of its entry as closed, and
\* calls of res.end().
WriteOp(event) == [op |-> "write", event |-> event]
ClosedOp == [op |-> "closed"]
EndOp == [op |-> "end"]

\* res.writableEnded
WritableEnded(c) == \E i \in 1..Len(lsTrace[c]) : lsTrace[c][i] = EndOp

lsOthers == <<runVars, vCwd, vOutputDir, vRawPath, vResult, planVars, revVars, srvVars, rqVars,
              doVars, dfVars, spVars>>

\* entry.closed = true; clearInterval(entry.heartbeat) on the entry of c
Closed(entries, c) == [entries EXCEPT ![c].closed = TRUE, ![c].heartbeat = FALSE]

\* this.streams.delete(channelId)
Deleted(streams, ch) == [streams EXCEPT ![ch] = 0]

\* handleTaskLogStream (lines 51-91) for the request of subscriber c with
\* the normalized channel id ch ("" when the query names none)
HandleTaskLogStream(c, ch) ==
    /\ lsConn[c] = "new"
    /\ IF ch = ""
       THEN /\ lsConn' = [lsConn EXCEPT ![c] = "rejected"]
            /\ UNCHANGED <<lsStreams, lsEntry, lsTrace>>
       ELSE LET existing == lsStreams[ch]
                entries == IF existing # 0 THEN Closed(lsEntry, existing) ELSE lsEntry
                traces == IF existing # 0
                          THEN [lsTrace EXCEPT ![existing] = @ \o <<ClosedOp, EndOp>>]
                          ELSE lsTrace
            IN  /\ lsEntry' = [entries EXCEPT ![c] =
                                  [channel |-> ch, closed |-> FALSE, heartbeat |-> TRUE]]
                /\ lsStreams' = [lsStreams EXCEPT ![ch] = c]
                /\ lsTrace' = [traces EXCEPT ![c] = @ \o <<WriteOp("ready")>>]
                /\ lsConn' = [lsConn EXCEPT ![c] = "open"]
    /\ UNCHANGED lsCalls
    /\ UNCHANGED lsOthers

\* the callback of setInterval (lines 72-76)
Heartbeat(c) ==
    /\ lsEntry[c].heartbeat
    /\ lsCalls < MaxCalls
    /\ lsCalls' = lsCalls + 1
    /\ lsTrace' = IF WritableEnded(c) THEN lsTrace
                  ELSE [lsTrace EXCEPT ![c] = Append(@, WriteOp("keep-alive"))]
    /\ UNCHANGED <<lsStreams, lsEntry, lsConn>>
    /\ UNCHANGED lsOthers

\* variant of the handler below without the test of entry.closed
RequestClose_Unguarded(c) ==
    /\ lsConn[c] = "open"
    /\ lsConn' = [lsConn EXCEPT ![c] = "disconnected"]
    /\ lsEntry' = Closed(lsEntry, c)
    /\ lsStreams' = Deleted(lsStreams, lsEntry[c].channel)
    /\ lsTrace' = [lsTrace EXCEPT ![c] = Append(@, ClosedOp)]
    /\ UNCHANGED lsCalls
    /\ UNCHANGED lsOthers

\* the handler of the 'close' event of the request of c (lines 84-90)
RequestClose(c) ==
    /\ lsConn[c] = "open"
    /\ lsConn' = [lsConn EXCEPT ![c] = "disconnected"]
    /\ IF ~lsEntry[c].closed
       THEN /\ lsEntry' = Closed(lsEntry, c)
            /\ lsStreams' = Deleted(lsStreams, lsEntry[c].channel)
            /\ lsTrace' = [lsTrace EXCEPT ![c] = Append(@, ClosedOp)]
       ELSE UNCHANGED <<lsEntry, lsStreams, lsTrace>>
    /\ UNCHANGED lsCalls
    /\ UNCHANGED lsOthers

\* the state after sendLogEvent(ch, eventName, payload) (lines 107-127);
\* throws: JSON.stringify or res.write throws inside the try block
AfterSendLogEvent(state, ch, eventName, throws) ==
    IF ch = "" \/ state.streams[ch] = 0 \/ state.entries[state.streams[ch]].closed THEN state
    ELSE LET c == state.streams[ch]
         IN  IF ~throws
             THEN [state EXCEPT !.traces[c] = Append(@, WriteOp(eventName))]
             ELSE [streams |-> Deleted(state.streams, ch),
                   entries |-> Closed(state.entries, c),
                   traces |-> [state.traces EXCEPT ![c] = @ \o <<ClosedOp, EndOp>>]]

\* the state after closeLogStream(ch, payload) (lines 129-142)
AfterCloseLogStream(state, ch, throws) ==
    IF ch = "" \/ state.streams[ch] = 0 \/ state.entries[state.streams[ch]].closed THEN state
    ELSE LET c == state.streams[ch]
             sent == AfterSendLogEvent(state, ch, "end", throws)
         IN  [streams |-> Deleted(sent.streams, ch),
              entries |-> Closed(sent.entries, c),
              traces |-> [sent.traces EXCEPT ![c] = @ \o <<ClosedOp, EndOp>>]]

StreamState == [streams |-> lsStreams, entries |-> lsEntry, traces |-> lsTrace]

\* a call of sendLogEvent (sendLogMessage and sendLogError call it with
\* 'info' and 'error')
SendLogEvent(ch, eventName, throws) ==
    /\ lsCalls < MaxCalls
    /\ lsCalls' = lsCalls + 1
    /\ \E after \in {AfterSendLogEvent(StreamState, ch, eventName, throws)} :
          /\ lsStreams' = after.streams
          /\ lsEntry' = after.entries
          /\ lsTrace' = after.traces
    /\ UNCHANGED lsConn
    /\ UNCHANGED lsOthers

\* a call of closeLogStream
CloseLogStream(ch, throws) ==
    /\ lsCalls < MaxCalls
    /\ lsCalls' = lsCalls + 1
    /\ \E after \in {AfterCloseLogStream(StreamState, ch, throws)} :
          /\ lsStreams' = after.streams
          /\ lsEntry' = after.entries
          /\ lsTrace' = after.traces
    /\ UNCHANGED lsConn
    /\ UNCHANGED lsOthers

InitStreams ==
    /\ AgentInit
    /\ OutputIdle
    /\ PlanIdle
    /\ RevisionIdle
    /\ ServerIdle
    /\ RequestsIdle
    /\ DescribeIdle
    /\ FailureIdle
    /\ StreamsIdle
    /\ SpawnIdle

NextStreams ==
    \/ \E c \in Subscribers, ch \in Channels \cup {""} : HandleTaskLogStream(c, ch)
    \/ \E c \in Subscribers : Heartbeat(c)
    \/ \E c \in Subscribers : RequestClose(c)
    \/ \E ch \in Channels \cup {""}, throws \in BOOLEAN : SendLogEvent(ch, "info", throws)
    \/ \E ch \in Channels \cup {""}, throws \in BOOLEAN : CloseLogStream(ch, throws)

SpecStreams == InitStreams /\ [][NextStreams]_vars

\* ------------------------------------------- CommandExecutor.spawnProcess
\* One call of spawnProcess with the events of its child delivered in any
\* order: 'data' on stdout or stderr, 'error', 'close' with an exit code or
\* null, and the expiry of the timer while it is armed.
spOthers == <<runVars, vCwd, vOutputDir, vRawPath, vResult, planVars, revVars, srvVars, rqVars,
              doVars, dfVars, lsVars>>

\* the codes a 'close' event carries: an exit code, or null after a signal
CloseCodes == {Num(0), Num(1), Null}

\* the executor of the promise (lines 296-311): the child is spawned and the
\* timer armed
SpawnProcess ==
    /\ spTimer = "none"
    /\ spTimer' = "armed"
    /\ UNCHANGED <<spStdout, spStderr, spFinished, spTimedOut, spKills, spSettled,
                   spDelivered, spHooks>>
    /\ UNCHANGED spOthers

\* the callback of setTimeout (lines 308-311); clearTimeout disarms it
TimeoutFires ==
    /\ spTimer = "armed"
    /\ spTimer' = "fired"
    /\ spTimedOut' = TRUE
    /\ spKills' = spKills + 1
    /\ UNCHANGED <<spStdout, spStderr, spFinished, spSettled, spDelivered, spHooks>>
    /\ UNCHANGED spOthers

\* clearTimeout(timeoutId)
ClearTimeout(timer) == IF timer = "armed" THEN "cleared" ELSE timer

\* the 'data' handlers (lines 313-327)
ChildData(stream, text) ==
    /\ spTimer # "none"
    /\ Len(spDelivered) < MaxEvents
    /\ spDelivered' = Append(spDelivered, [event |-> "data", stream |-> stream])
    /\ IF stream = "stdout"
       THEN spStdout' = Append(spStdout, text) /\ UNCHANGED spStderr
       ELSE spStderr' = Append(spStderr, text) /\ UNCHANGED spStdout
    /\ spHooks' = Append(spHooks, [stream |-> stream, text |-> text])
    /\ UNCHANGED <<spFinished, spTimedOut, spTimer, spKills, spSettled>>
    /\ UNCHANGED spOthers

\* the 'error' handler (lines 329-335)
ChildError ==
    /\ spTimer # "none"
    /\ Len(spDelivered) < MaxEvents
    /\ spDelivered' = Append(spDelivered, [event |-> "error"])
    /\ IF ~spFinished
       THEN /\ spFinished' = TRUE
            /\ spTimer' = ClearTimeout(spTimer)
            /\ spSettled' = Append(spSettled, [kind |-> "rejected"])
       ELSE UNCHANGED <<spFinished, spTimer, spSettled>>
    /\ UNCHANGED <<spStdout, spStderr, spTimedOut, spKills, spHooks>>
    /\ UNCHANGED spOthers

\* variant of the 'close' handler without the finished flag
ChildClose_NoFinishedFlag(code) ==
    /\ spTimer # "none"
    /\ Len(spDelivered) < MaxEvents
    /\ spDelivered' = Append(spDelivered, [event |-> "close", code |-> code])
    /\ spFinished' = TRUE
    /\ spTimer' = ClearTimeout(spTimer)
    /\ spSettled' = Append(spSettled,
            [kind |-> "resolved",
             value |-> SpawnResult(code, spTimedOut, spStdout, spStderr)])
    /\ UNCHANGED <<spStdout, spStderr, spTimedOut, spKills, spHooks>>
    /\ UNCHANGED spOthers

\* the 'close' handler (lines 337-348)
ChildClose(code) ==
    /\ spTimer # "none"
    /\ Len(spDelivered) < MaxEvents
    /\ spDelivered' = Append(spDelivered, [event |-> "close", code |-> code])
    /\ IF ~spFinished
       THEN /\ spFinished' = TRUE
            /\ spTimer' = ClearTimeout(spTimer)
            /\ spSettled' = Append(spSettled,
                    [kind |-> "resolved",
                     value |-> SpawnResult(code, spTimedOut, spStdout, spStderr)])
       ELSE UNCHANGED <<spFinished, spTimer, spSettled>>
    /\ UNCHANGED <<spStdout, spStderr, spTimedOut, spKills, spHooks>>
    /\ UNCHANGED spOthers

InitSpawn ==
    /\ AgentInit
    /\ OutputIdle
    /\ PlanIdle
    /\ RevisionIdle
    /\ ServerIdle
    /\ RequestsIdle
    /\ DescribeIdle
    /\ FailureIdle
    /\ StreamsIdle
    /\ SpawnIdle

NextSpawn ==
    \/ SpawnProcess
    \/ TimeoutFires
    \/ \E stream \in {"stdout", "stderr"} : ChildData(stream, "x")
    \/ ChildError
    \/ \E code \in CloseCodes : ChildClose(code)

SpecSpawn == InitSpawn /\ [][NextSpawn]_vars

\* ================================================================== claims
PlanThrown == pc = "thrown" /\ plannerError # Undefined
LogicalFailureThrown == pc = "thrown" /\ failureError # Undefined
Settled == pc \in {"returned", "thrown"}

\* step i (1-based) of the recorded results was executed and failed
RecordedFailure(i) ==
    /\ stepResults[i].status = "executed"
    /\ (stepResults[i].timedOut
        \/ (IsNumber(stepResults[i].exitCode) /\ stepResults[i].exitCode.v # 0))

FailedBefore(i) == \E j \in 1..(i - 1) : RecordedFailure(j)

Spawned(i) == \E k \in 1..Len(spawnLog) : spawnLog[k] = i - 1

\* C1 (as stated): when execute returns a logical failure, the error runTask
\* throws has a context holding plan, rawPlan, debug and the execution result
C1_ContextHasResult ==
    LogicalFailureThrown =>
        /\ {"plan", "rawPlan", "debug", "result"} \subseteq DOMAIN outcome.error.context
        /\ outcome.error.context.result = Obj(result)

\* C2: once step N was executed and exited non-zero, every later step is
\* recorded as skipped with previous_step_failed and never spawned, all
\* steps are recorded when execute returns, and a recorded result never
\* changes afterwards
C2_LaterStepsSkipped ==
    \A n \in 1..Len(stepResults) :
        (/\ stepResults[n].status = "executed"
         /\ IsNumber(stepResults[n].exitCode)
         /\ stepResults[n].exitCode.v # 0)
        => /\ \A m \in (n + 1)..Len(stepResults) :
                /\ stepResults[m].status = "skipped"
                /\ stepResults[m].skipReason = "previous_step_failed"
                /\ ~Spawned(m)
           /\ \A k \in 1..Len(spawnLog) : spawnLog[k] < n
           /\ (result # Undefined => Len(stepResults) = Len(plan.steps))

C2_RecordedResultsKept ==
    \A i \in 1..Len(stepResults) :
        Len(stepResults') >= i /\ stepResults'[i] = stepResults[i]

C2_FailurePropagation == [](C2_LaterStepsSkipped) /\ [][C2_RecordedResultsKept]_vars

C2_Witness ==
    /\ pc = "thrown"
    /\ Len(stepResults) = 3
    /\ stepResults[1].status = "executed" /\ stepResults[1].exitCode = Num(0)
    /\ stepResults[2].status = "executed" /\ stepResults[2].exitCode = Num(1)
    /\ stepResults[3].status = "skipped"
    /\ stepResults[3].skipReason = "previous_step_failed"

\* C4: with dryRun every step is skipped with dry_run, whatever its command,
\* no process is spawned, and every step has a result when execute returns
C4_DryRunSkipsAll ==
    dryRun =>
        /\ spawnLog = <<>>
        /\ \A i \in 1..Len(stepResults) :
              stepResults[i].status = "skipped" /\ stepResults[i].skipReason = "dry_run"
        /\ (Settled /\ plan # Undefined => Len(stepResults) = Len(plan.steps))

C4_Witness ==
    /\ pc = "returned" /\ dryRun
    /\ Len(stepResults) >= 2
    /\ \E i, j \in 1..Len(stepResults) :
          stepResults[i].command = "none" /\ stepResults[j].command = "ffmpeg"

\* C5: the skip reason follows dry_run > previous_step_failed > no_op_command
\* and a result is either executed (no skipReason) or skipped (skipReason,
\* exit code null, not timed out, no output)
C5_ExpectedReason(i) ==
    IF dryRun THEN "dry_run"
    ELSE IF FailedBefore(i) THEN "previous_step_failed"
    ELSE IF plan.steps[i].command = "none" THEN "no_op_command"
    ELSE NoSkip

C5_SkipPrecedence ==
    \A i \in 1..Len(stepResults) :
        LET r == stepResults[i] IN
        /\ r.status \in {"executed", "skipped"}
        /\ (r.status = "skipped") = (C5_ExpectedReason(i) # NoSkip)
        /\ r.status = "skipped" =>
              /\ "skipReason" \in DOMAIN r
              /\ r.skipReason = C5_ExpectedReason(i)
              /\ r.exitCode = Null /\ r.timedOut = FALSE
              /\ r.stdout = "" /\ r.stderr = ""
        /\ r.status = "executed" => "skipReason" \notin DOMAIN r

C5_Witness ==
    /\ Settled /\ ~dryRun
    /\ \E i \in 1..Len(stepResults) :
          /\ FailedBefore(i)
          /\ plan.steps[i].command = "none"
          /\ stepResults[i].skipReason = "previous_step_failed"

\* C6: without dryRun and without an earlier failure a 'none' step is
\* skipped with no_op_command and not spawned, whatever its arguments and
\* outputs, and the step after it still runs
C6_NoOpSkipped ==
    \A i \in 1..Len(stepResults) :
        (~dryRun /\ ~FailedBefore(i) /\ plan.steps[i].command = "none")
        => /\ stepResults[i].status = "skipped"
           /\ stepResults[i].skipReason = "no_op_command"
           /\ ~Spawned(i)
           /\ ~encounteredFailure \/ \E j \in (i + 1)..Len(stepResults) : RecordedFailure(j)
           /\ (i < Len(stepResults) /\ plan.steps[i + 1].command # "none")
                 => stepResults[i + 1].status = "executed"

C6_Witness ==
    /\ pc = "returned" /\ ~dryRun
    /\ Len(stepResults) >= 2
    /\ plan.steps[1].command = "none" /\ plan.steps[1].arguments # <<>>
    /\ plan.steps[1].outputs # <<>>
    /\ stepResults[1].skipReason = "no_op_command"
    /\ stepResults[2].status = "executed"

\* C7 (as stated): when the planner throws, the phases of the thrown error
\* have exactly one entry, the plan phase with status failed
C7_OnePhaseEntry ==
    PlanThrown =>
        /\ Len(outcome.error.phases) = 1
        /\ outcome.error.phases[1].id = "plan"
        /\ outcome.error.phases[1].status = "failed"

\* C7 (amended): when the planner throws, the phases of the thrown error are
\* the three phases plan, execute, summarize; plan is failed and is the only
\* phase that is not pending
C7_PlanFailedOthersPending ==
    PlanThrown =>
        /\ outcome.error.name = Str(<<"MediaAgentTaskError">>)
        /\ Len(outcome.error.phases) = 3
        /\ \A i \in 1..3 : outcome.error.phases[i].id = DEFAULT_PHASES[i]
        /\ outcome.error.phases[1].status = "failed"
        /\ \A i \in 2..3 : outcome.error.phases[i].status = "pending"

C7_Witness == PlanThrown /\ outcome.error.phases[1].status = "failed"

\* C8: when the planner throws, rawPlan, debug and responseText of the
\* context are the planner error's fields when present and null when
\* absent, and the planner's error is the cause
C8_FieldPresent(f) == plannerError.t = "error" /\ plannerError[f] # Undefined

C8_ContextFromPlannerError ==
    PlanThrown =>
        /\ DOMAIN outcome.error.context = {"rawPlan", "debug", "responseText"}
        /\ \A f \in {"rawPlan", "debug", "responseText"} :
              outcome.error.context[f] =
                  IF C8_FieldPresent(f) THEN plannerError[f] ELSE Null
        /\ outcome.error.cause = plannerError

C8_Witness ==
    /\ PlanThrown
    /\ plannerError.t = "error"
    /\ plannerError.rawPlan = Undefined /\ outcome.error.context.rawPlan = Null
    /\ plannerError.responseText = Str(<<>>) /\ outcome.error.context.responseText = Str(<<>>)
    /\ outcome.error.context.debug = Obj("debug")

\* C9 (as stated): every failure reaches the caller as a MediaAgentTaskError
\* whose phases are success before the failing phase and failed, with the
\* error that caused the failure, at the failing phase
C9_RootCause ==
    IF plannerError # Undefined THEN plannerError
    ELSE IF failureError # Undefined THEN failureError
    ELSE outcome.error.cause

C9_PhaseHistory ==
    pc = "thrown" =>
        LET k == IF plannerError # Undefined THEN 1 ELSE 2 IN
        /\ outcome.error.name = Str(<<"MediaAgentTaskError">>)
        /\ \A j \in 1..(k - 1) : outcome.error.phases[j].status = "success"
        /\ outcome.error.phases[k].status = "failed"
        /\ outcome.error.phases[k].error = PhaseErrorOf(C9_RootCause)

\* C10 (as stated): without dryRun a plan made only of 'none' steps makes
\* runTask reject with the message 'No executable commands were generated
\* (plan only returned "none" steps).'
C10_NoOpPlanRejected ==
    (/\ Settled /\ ~dryRun /\ plan # Undefined
     /\ \A i \in 1..Len(plan.steps) : plan.steps[i].command = "none")
    => /\ pc = "thrown"
       /\ outcome.error.message =
            Str(<<"No executable commands were generated (plan only returned \"none\" steps).">>)

\* C3 (as stated): validateOutput rejects a non-empty path exactly when the
\* resolved path is not inside the resolved output directory
IsInside(p, dir) == Len(p) >= Len(dir) /\ SubSeq(p, 1, Len(dir)) = dir

C3_RejectsIffOutside ==
    vResult.verdict \in {"ok", "outside"} =>
        ((vResult.verdict = "outside")
            <=> ~IsInside(Resolve(vCwd, vRawPath), Resolve(vCwd, vOutputDir)))

\* C11 (as stated): start is applied to a pending phase only, complete and
\* fail to a phase in progress only, so that no start, complete or fail is
\* ever applied to a phase that is already success or failed
C11_NoCallOnSettledPhase ==
    \A k \in 1..Len(trackerCalls) :
        /\ (trackerCalls[k].op = "start" => trackerCalls[k].from = "pending")
        /\ (trackerCalls[k].op \in {"complete", "fail"} => trackerCalls[k].from = "in_progress")

\* C12: the phases are plan, execute, summarize in this order; execute is
\* started only once plan is success, summarize only once execute is success
\* and it is completed by the next call; when runTask returns all three are
\* success and summarize's meta holds the number of resolved outputs; when
\* plan fails, execute and summarize are still pending
C12_PhaseStatuses ==
    phases # <<>> =>
        /\ [i \in 1..Len(phases) |-> phases[i].id] = <<"plan", "execute", "summarize">>
        /\ (phases[2].status # "pending" => phases[1].status = "success")
        /\ (phases[3].status # "pending" =>
               phases[2].status = "success" /\ phases[3].status = "success")
        /\ (pc = "returned" =>
               /\ \A i \in 1..3 : phases[i].status = "success"
               /\ phases[3].meta.outputs = Len(result.resolvedOutputs)
               /\ outcome.value.phases = phases)
        /\ (PlanThrown => phases[2].status = "pending" /\ phases[3].status = "pending")

C12_StartsInOrder ==
    \A k \in 1..Len(trackerCalls) :
        trackerCalls[k].op = "start" =>
            /\ (trackerCalls[k].id = "plan" => k = 1)
            /\ (trackerCalls[k].id = "execute" =>
                   \E j \in 1..(k - 1) :
                       trackerCalls[j].op = "complete" /\ trackerCalls[j].id = "plan")
            /\ (trackerCalls[k].id = "summarize" =>
                   /\ \E j \in 1..(k - 1) :
                          trackerCalls[j].op = "complete" /\ trackerCalls[j].id = "execute"
                   /\ k < Len(trackerCalls)
                   /\ trackerCalls[k + 1] =
                        [op |-> "complete", id |-> "summarize", from |-> "in_progress"])

C12_PhaseOrder == C12_PhaseStatuses /\ C12_StartsInOrder

C12_Witness ==
    /\ pc = "returned"
    /\ Len(result.steps) = 3
    /\ Len(result.resolvedOutputs) = 2
    /\ phases[3].meta.outputs = 2

\* C13: a step recorded when its process closes is reported as timed out
\* exactly when the timer fired before the close; then the kill was sent,
\* its exitCode is null whatever code the close event carried, every later
\* step is skipped with previous_step_failed and never spawned, and the
\* result of execute has timedOut true and exitCode null
C13_TimedOutStepRecorded ==
    \A n \in 1..Len(stepResults) :
        (stepResults[n].status = "executed" /\ stepResults[n].timedOut) =>
            /\ stepResults[n].exitCode = Null
            /\ \A m \in (n + 1)..Len(stepResults) :
                  /\ stepResults[m].status = "skipped"
                  /\ stepResults[m].skipReason = "previous_step_failed"
                  /\ ~Spawned(m)
            /\ (result # Undefined => result.timedOut /\ result.exitCode = Null)

C13_CloseRecordsTimer ==
    (pc = "spawned" /\ pc' = "executing") =>
        LET r == stepResults'[Len(stepResults')] IN
        /\ Len(stepResults') = Len(stepResults) + 1
        /\ r.status = "executed"
        /\ r.timedOut = procTimedOut
        /\ (procTimedOut => killSent /\ r.exitCode = Null)

C14_AtMostOneRunning ==
    /\ Cardinality(running) <= 1
    /\ (pc = "spawned" => running = {index} /\ Len(stepResults) = index)
    /\ (pc \in {"executing", "returned"} => running = {})
    /\ \A k \in 1..(Len(spawnLog) - 1) : spawnLog[k] < spawnLog[k + 1]

C14_SpawnAfterClose ==
    Len(spawnLog') > Len(spawnLog) =>
        /\ running = {}
        /\ Len(stepResults) = index
        /\ spawnLog' = Append(spawnLog, index)
        /\ \A k \in 1..Len(spawnLog) : stepResults[spawnLog[k] + 1].status = "executed"

C14_Sequential == [](C14_AtMostOneRunning) /\ [][C14_SpawnAfterClose]_vars

C14_Witness ==
    /\ pc = "spawned"
    /\ spawnLog = <<0, 2>>
    /\ running = {2}
    /\ Len(stepResults) = 2

\* C15: the exitCode and timedOut of the result of execute are those of the
\* last step with status executed, null and false when no step was executed
C15_TopLevelFromLastExecuted ==
    result # Undefined =>
        LET executed == {i \in 1..Len(result.steps) : result.steps[i].status = "executed"} IN
        IF executed = {}
        THEN result.exitCode = Null /\ ~result.timedOut
        ELSE LET last == CHOOSE i \in executed : \A j \in executed : j <= i IN
             /\ result.exitCode = result.steps[last].exitCode
             /\ result.timedOut = result.steps[last].timedOut

C15_Witness ==
    /\ result # Undefined
    /\ Len(result.steps) = 3
    /\ result.steps[1].status = "executed" /\ result.steps[1].exitCode = Null
    /\ result.steps[2].status = "executed" /\ result.steps[2].exitCode = Num(0)
    /\ result.steps[3].status = "skipped" /\ result.steps[3].command = "none"
    /\ result.exitCode = Num(0)

\* C16: the dryRun of the result of execute is true exactly when dryRun was
\* requested or no step was executed; a plan of 'none' steps only, run
\* without dryRun, gives exitCode null, timedOut false, empty stdout and
\* stderr, dryRun true and every step skipped with no_op_command
C16_DryRunFlag ==
    result # Undefined =>
        /\ result.dryRun <=>
              (dryRun \/ \A i \in 1..Len(result.steps) : result.steps[i].status # "executed")
        /\ (~dryRun /\ \A i \in 1..Len(plan.steps) : plan.steps[i].command = "none") =>
              /\ result.exitCode = Null
              /\ ~result.timedOut
              /\ result.stdout = <<>> /\ result.stderr = <<>>
              /\ result.dryRun
              /\ Len(result.steps) = Len(plan.steps)
              /\ \A i \in 1..Len(result.steps) :
                    /\ result.steps[i].status = "skipped"
                    /\ result.steps[i].skipReason = "no_op_command"

C16_Witness ==
    /\ result # Undefined
    /\ ~dryRun
    /\ Len(plan.steps) = 2
    /\ \A i \in 1..Len(plan.steps) : plan.steps[i].command = "none"
    /\ result.dryRun

\* the headers a transcript must have: one per executed step of steps n..
\* whose output on the stream is not empty, numbered from 1
RECURSIVE ExpectedHeaders(_, _, _)
ExpectedHeaders(steps, n, stream) ==
    IF n > Len(steps) THEN <<>>
    ELSE (IF steps[n].status = "executed" /\ steps[n][stream] # ""
          THEN <<<<n, steps[n].command, steps[n].arguments>>>>
          ELSE <<>>)
         \o ExpectedHeaders(steps, n + 1, stream)

HeadersOf(transcript) == [k \in 1..Len(transcript) |-> transcript[k].header]

\* C17: stdout and stderr of the result of execute hold, in step order, one
\* block headed '[step N] <command> <args>' (N counted from 1) for each
\* executed step with non-empty output on that stream and nothing else
C17_TranscriptBlocks ==
    result # Undefined =>
        /\ HeadersOf(result.stdout) = ExpectedHeaders(result.steps, 1, "stdout")
        /\ HeadersOf(result.stderr) = ExpectedHeaders(result.steps, 1, "stderr")

C17_Witness ==
    /\ result # Undefined
    /\ Len(result.steps) = 3
    /\ result.steps[1].status = "executed" /\ result.steps[1].stdout = ""
    /\ result.steps[2].status = "skipped"
    /\ result.steps[3].status = "executed" /\ result.steps[3].stdout = "hello"
    /\ HeadersOf(result.stdout) = <<<<3, "ffmpeg", <<"-i">>>>>>
    /\ HeadersOf(result.stderr) = <<<<1, "ffmpeg", <<"-i">>>>>>

\* the parent directories of the declared outputs of a plan
OutputParents(p) ==
    LET outputs == CollectOutputs(p.steps) IN
    {Dirname(Resolve(Cwd, outputs[i].path)) : i \in 1..Len(outputs)}

\* C18: no step is evaluated before execute has the plan, and from then on,
\* before the first step is evaluated and until execute returns, the parent
\* directory of every declared output exists, with dryRun as well
C18_DirectoriesFirst ==
    /\ (plan = Undefined => stepResults = <<>> /\ spawnLog = <<>>)
    /\ (plan # Undefined => OutputParents(plan) \subseteq dirs)

C18_Witness ==
    /\ dryRun
    /\ pc = "executing" /\ index = 0 /\ stepResults = <<>> /\ spawnLog = <<>>
    /\ plan.steps[1].command = "none"
    /\ Cardinality(OutputParents(plan)) = 2
    /\ OutputParents(plan) \subseteq dirs

\* the steps of a result that were executed and timed out or ended with a
\* number other than 0
FailedSteps(res) ==
    {i \in 1..Len(res.steps) :
        /\ res.steps[i].status = "executed"
        /\ (res.steps[i].timedOut \/ res.steps[i].exitCode \notin {Null, Num(0)})}

SpawnFailureThrown == pc = "thrown" /\ plannerError = Undefined /\ result = Undefined

\* C20: when the process of a step fails to spawn, no later step is
\* started, the execute phase is failed, summarize is pending, and the
\* context of the thrown error holds plan, rawPlan and debug and no result
C20_SpawnFailure ==
    SpawnFailureThrown =>
        /\ DOMAIN outcome.error.context = {"plan", "rawPlan", "debug"}
        /\ outcome.error.context.plan = Obj(plan)
        /\ outcome.error.context.rawPlan = Coalesce(rawPlan, Obj(plan))
        /\ outcome.error.context.debug = debugInfo
        /\ outcome.error.name = Str(<<"MediaAgentTaskError">>)
        /\ outcome.error.phases = phases
        /\ phases[1].status = "success"
        /\ phases[2].status = "failed"
        /\ phases[3].status = "pending"
        /\ index < Len(plan.steps)
        /\ Len(stepResults) = index
        /\ spawnLog[Len(spawnLog)] = index

C20_Witness ==
    /\ SpawnFailureThrown
    /\ Len(plan.steps) = 3
    /\ index = 1
    /\ plan.steps[3].command = "ffmpeg"
    /\ spawnLog = <<0, 1>>

\* the steps of the plan as it was given to validate
InputSteps ==
    IF IsObject(vpOriginal) /\ IsArray(vpOriginal.steps) THEN vpOriginal.steps.v ELSE <<>>

\* C21 (as stated): a plan returned by validate has as many steps as the
\* input, at least one, in the same order, and the command of every step
\* is a string that is an id defined in the registry, with the arguments
\* of the input
C21_CommandsAreDefinedIds ==
    vpResult.kind = "returned" =>
        LET steps == vpResult.value.steps.v IN
        /\ Len(steps) > 0
        /\ Len(steps) = Len(InputSteps)
        /\ \A i \in 1..Len(steps) :
              /\ IsString(steps[i].command)
              /\ steps[i].command.v \in ListCommandIds(vpDefs)
              /\ steps[i].command = InputSteps[i].command
              /\ steps[i].arguments = InputSteps[i].arguments

\* arguments that are not an array of strings
BadArguments(step) ==
    /\ IsObject(step)
    /\ (~IsArray(step.arguments)
        \/ \E k \in 1..Len(step.arguments.v) : ~IsString(step.arguments.v[k]))

ArrayOfStrings == "arguments must be an array of strings."

\* C22 (as stated): whenever a step of the input has arguments that are not
\* an array of strings, validate (called with an output directory) throws
\* an error whose message contains 'array of strings'
C22_AlwaysArrayOfStrings ==
    (/\ vpc # "ready"
     /\ IsString(vpOutputDir)
     /\ \E i \in 1..Len(InputSteps) : BadArguments(InputSteps[i]))
        => vpResult.kind = "thrown" /\ vpResult.message.text = ArrayOfStrings

\* C22 (amended): a plan with a step whose arguments are not an array of
\* strings is never returned and arguments are returned as they were given;
\* the message is the 'array of strings' one, naming the step, when the
\* output directory is given, every earlier step is valid and the command
\* of the step is accepted
C22_NeverReturnedFirstDefectNamed ==
    vpc # "ready" =>
        /\ (\E i \in 1..Len(InputSteps) : BadArguments(InputSteps[i]))
              => vpResult.kind = "thrown"
        /\ \A i \in 1..Len(InputSteps) :
              (/\ BadArguments(InputSteps[i])
               /\ IsString(vpOutputDir)
               /\ IsString(InputSteps[i].command)
               /\ HasCommand(vpDefs, InputSteps[i].command.v)
               /\ \A j \in 1..(i - 1) :
                     ValidateStep(vpDefs, Cwd, InputSteps[j], j - 1,
                                  Resolve(Cwd, ParsePath(vpOutputDir.v))).kind = "returned")
              => vpResult = Thrown(ArrayOfStrings, i)
        /\ vpResult.kind = "returned" =>
              \A i \in 1..Len(InputSteps) :
                  /\ vpResult.value.steps.v[i].arguments = InputSteps[i].arguments
                  /\ \A k \in 1..Len(InputSteps[i].arguments.v) :
                        IsString(vpResult.value.steps.v[i].arguments.v[k])

C22_Witness ==
    /\ vpc = "validated"
    /\ Len(InputSteps) = 2
    /\ ~BadArguments(InputSteps[1])
    /\ BadArguments(InputSteps[2]) /\ IsArray(InputSteps[2].arguments)
    /\ vpResult = Thrown(ArrayOfStrings, 2)

\* C23 (as stated): validating a plan that validate returned, with the same
\* output directory, returns again, and returns an identical plan
C23_Idempotent ==
    vpc = "revalidated" =>
        /\ vpSecond.kind = "returned"
        /\ vpSecond.value = vpResult.value

\* C24 (as stated): when validate throws, the plan object passed in is
\* exactly as it was before the call
C24_ArgumentUntouched ==
    vpResult.kind = "thrown" => vpPlan = vpOriginal

\* ------------------------------------------------------------------ C25
\* the sources prepareRevisionFiles is to look at, in order: every uploaded
\* file, then every resolved output marked existing
RevisionCandidates(record) ==
    LET ups == UploadedFilesOf(record)
        outs == ResolvedOutputsOf(record)
        fromUp == [i \in 1..Len(ups) |->
                     IF IsObject(ups[i]) /\ IsString(ups[i].absolutePath)
                     THEN [named |-> TRUE, raw |-> ups[i].absolutePath.v]
                     ELSE [named |-> FALSE, raw |-> <<>>]]
        fromOut == [i \in 1..Len(outs) |->
                     IF IsObject(outs[i]) /\ outs[i].exists
                     THEN IF IsString(outs[i].absolutePath) /\ outs[i].absolutePath.v # <<>>
                          THEN [named |-> TRUE, raw |-> outs[i].absolutePath.v]
                          ELSE IF IsString(outs[i].path)
                               THEN [named |-> TRUE, raw |-> outs[i].path.v]
                               ELSE [named |-> FALSE, raw |-> <<>>]
                     ELSE [named |-> FALSE, raw |-> <<>>]]
    IN fromUp \o fromOut

\* the regular files among the candidates, each absolute path once, at the
\* place of its first occurrence
RECURSIVE FirstOccurrences(_, _, _)
FirstOccurrences(cands, taken, fs) ==
    IF cands = <<>> THEN <<>>
    ELSE LET c == cands[1]
             abs == Resolve(Cwd, ParsePath(c.raw))
             keep == /\ c.named
                     /\ c.raw # <<>>
                     /\ abs \notin taken
                     /\ abs \in DOMAIN fs
                     /\ fs[abs].kind = "file"
         IN IF keep THEN <<abs>> \o FirstOccurrences(Tail(cands), taken \cup {abs}, fs)
            ELSE FirstOccurrences(Tail(cands), taken, fs)

CollectedPaths == [i \in 1..Len(revCollected) |-> revCollected[i].absolutePath]

\* C25: the list prepareRevisionFiles composes never holds the same absolute
\* path twice; when it returns the list holds, uploaded files first and
\* existing resolved outputs after them, the regular files at their first
\* occurrence, and entries that are missing or not regular files are left
\* out without an error
C25_NoPathTwice ==
    \A i, j \in 1..Len(revCollected) :
        i # j => revCollected[i].absolutePath # revCollected[j].absolutePath

C25_FirstOccurrenceWins ==
    revPc = "done" =>
        CollectedPaths = FirstOccurrences(RevisionCandidates(revRecord), {}, revFs)

C25_RevisionFiles == C25_NoPathTwice /\ C25_FirstOccurrenceWins

\* a call returned a list where an existing output repeated an uploaded file
\* and another entry was not a regular file
C25_Witness ==
    /\ revPc = "done"
    /\ Len(revCollected) >= 1
    /\ \E i \in 1..Len(UploadedFilesOf(revRecord)), j \in 1..Len(ResolvedOutputsOf(revRecord)) :
          LET up == UploadedFilesOf(revRecord)[i]
              out == ResolvedOutputsOf(revRecord)[j]
          IN /\ IsObject(up) /\ IsString(up.absolutePath)
             /\ IsObject(out) /\ out.exists /\ IsString(out.absolutePath)
             /\ Resolve(Cwd, ParsePath(up.absolutePath.v))
                    = Resolve(Cwd, ParsePath(out.absolutePath.v))
             /\ Resolve(Cwd, ParsePath(up.absolutePath.v)) \in DOMAIN revFs
    /\ \E i \in 1..Len(UploadedFilesOf(revRecord)) :
          LET up == UploadedFilesOf(revRecord)[i]
          IN /\ IsObject(up) /\ IsString(up.absolutePath)
             /\ Resolve(Cwd, ParsePath(up.absolutePath.v)) \in DOMAIN revFs
             /\ revFs[Resolve(Cwd, ParsePath(up.absolutePath.v))].kind = "directory"

\* ------------------------------------------------------------------ C26
ValidTaskRequest == Truthy(TaskOf(srvRequest)) /\ Truthy(srvRequest.session)

\* C26: handleTaskRequest answers a valid request exactly once: 200 with
\* status 'success' when runTask resolved, 422 with status 'failed' and error
\* 'Task execution failed.' when runTask threw a MediaAgentTaskError, 500 for
\* any other error; the response's phases are the request phase followed by
\* the agent's (or the error's) phases, and on a MediaAgentTaskError the
\* plan, rawPlan and responseText are those of the error context
C26_AnswersByOutcome ==
    (srvRequest # Null /\ ValidTaskRequest /\ srvAgent # Null) =>
        /\ Len(srvResponses) <= 1
        /\ srvPc \in {"done", "rejected"} => Len(srvResponses) = 1
        /\ \A i \in 1..Len(srvResponses) :
              LET r == srvResponses[i]
                  requestPhase == RequestPhase(TaskOf(srvRequest))
              IN IF srvAgent.kind = "resolved"
                 THEN /\ r.code = 200
                      /\ Prop(r.body, "status") = "success"
                      /\ Prop(r.body, "phases") = <<requestPhase>> \o srvAgent.value.phases
                 ELSE IF IsAgentError(srvAgent.error)
                 THEN /\ r.code = 422
                      /\ Prop(r.body, "status") = "failed"
                      /\ Prop(r.body, "error") = Str(<<"Task execution failed.">>)
                      /\ Prop(r.body, "phases") = <<requestPhase>> \o srvAgent.error.phases
                      /\ Prop(r.body, "plan")
                            = Coalesce(Prop(srvAgent.error.context, "plan"), Null)
                      /\ Prop(r.body, "rawPlan")
                            = Coalesce(Prop(srvAgent.error.context, "rawPlan"),
                                       Coalesce(Prop(srvAgent.error.context, "plan"), Null))
                      /\ Prop(r.body, "responseText")
                            = Coalesce(Prop(srvAgent.error.context, "responseText"), Null)
                 ELSE /\ r.code = 500
                      /\ Prop(r.body, "phases") \in {<<requestPhase>>, Undefined}

\* ------------------------------------------------------------------ C27
\* C27: a step is executed only if every earlier executed step succeeded: in
\* every result of execute, each executed step before an executed step has
\* timedOut false and exitCode 0 (a process that ended without an exit code
\* and without timing out counts as failed)
C27_EarlierExecutedSucceeded ==
    result # Undefined =>
        \A j \in 1..Len(result.steps) : \A i \in 1..(j - 1) :
            (result.steps[j].status = "executed" /\ result.steps[i].status = "executed") =>
                /\ ~result.steps[i].timedOut
                /\ result.steps[i].exitCode = Num(0)

\* ------------------------------------------------------------------ C28
\* the events of the step with the given (0-based) index, in order
EventsOfStep(i) == SelectSeq(events, LAMBDA e : e.index = i)

\* the events of one step so far: a single skip, or a start followed by
\* outputs and at most one end, which is then the last
StepEventsWellFormed(es) ==
    \/ es = <<>>
    \/ Len(es) = 1 /\ es[1].type = "skip"
    \/ /\ es[1].type = "start"
       /\ \A k \in 2..Len(es) : es[k].type \in {"output", "end"}
       /\ \A k \in 2..(Len(es) - 1) : es[k].type = "output"

\* C28: for each step, in plan order, the callbacks receive a single
\* onCommandSkip, or onCommandStart, then any number of onCommandOutput, then
\* one onCommandEnd; no event of a step comes before the skip or end of the
\* step before it, none after its own end
C28_EventOrder ==
    /\ \A i \in 0..(MaxSteps + 1) : StepEventsWellFormed(EventsOfStep(i))
    /\ events # <<>> => events[1].index = 0
    /\ \A k \in 1..(Len(events) - 1) :
          \/ events[k + 1].index = events[k].index
          \/ /\ events[k + 1].index = events[k].index + 1
             /\ events[k].type \in {"skip", "end"}

\* C28: when execute has returned, every step has its complete sequence,
\* the skip carries the recorded skip reason and the end carries the
\* recorded exitCode and timedOut
C28_EventsMatchResult ==
    result # Undefined =>
        \A i \in 1..Len(result.steps) :
            LET es == EventsOfStep(i - 1)
                r == result.steps[i]
            IN IF r.status = "skipped"
               THEN /\ Len(es) = 1
                    /\ es[1].type = "skip"
                    /\ es[1].command = plan.steps[i].command
                    /\ es[1].reason = r.skipReason
               ELSE /\ Len(es) >= 2
                    /\ es[1].type = "start"
                    /\ es[Len(es)].type = "end"
                    /\ es[Len(es)].command = plan.steps[i].command
                    /\ es[Len(es)].exitCode = r.exitCode
                    /\ es[Len(es)].timedOut = r.timedOut

C28_CallbackEvents == C28_EventOrder /\ C28_EventsMatchResult

\* execute returned after a step with output that timed out and a step
\* skipped for it
C28_Witness ==
    /\ result # Undefined
    /\ Len(result.steps) = 3
    /\ \E k \in 1..Len(events) : events[k].type = "output" /\ events[k].index = 1
    /\ \E k \in 1..Len(events) :
          events[k].type = "end" /\ events[k].index = 1 /\ events[k].timedOut
    /\ \E k \in 1..Len(events) :
          /\ events[k].type = "skip" /\ events[k].index = 2
          /\ events[k].reason = "previous_step_failed"
    /\ events[1].type = "skip"

\* ------------------------------------------------------------------ C29
\* status and skip reason of every step as one forward pass gives them: the
\* reason is assigned when the step is evaluated, the flag is raised after
\* an executed step that timed out or ended with a number other than 0
RECURSIVE ForwardPass(_, _, _, _)
ForwardPass(steps, recorded, isDryRun, failedSoFar) ==
    IF steps = <<>> THEN <<>>
    ELSE LET entry == IF isDryRun THEN [status |-> "skipped", skipReason |-> "dry_run"]
                      ELSE IF failedSoFar
                      THEN [status |-> "skipped", skipReason |-> "previous_step_failed"]
                      ELSE IF steps[1].command = "none"
                      THEN [status |-> "skipped", skipReason |-> "no_op_command"]
                      ELSE [status |-> "executed", skipReason |-> NoSkip]
             failedNow == /\ entry.status = "executed"
                          /\ \/ recorded[1].timedOut
                             \/ recorded[1].exitCode \notin {Null, Num(0)}
         IN <<entry>> \o ForwardPass(Tail(steps), Tail(recorded), isDryRun,
                                     failedSoFar \/ failedNow)

\* the skip reason of a step result, NoSkip when it has none
SkipReasonOf(r) == IF "skipReason" \in DOMAIN r THEN r.skipReason ELSE NoSkip

\* C29: the main loop followed by the pass over the skipped steps gives
\* every step the status and skip reason of a single forward pass
C29_SameAsForwardPass ==
    result # Undefined =>
        LET fp == ForwardPass(plan.steps, result.steps, dryRun, FALSE) IN
        \A i \in 1..Len(result.steps) :
            /\ result.steps[i].status = fp[i].status
            /\ SkipReasonOf(result.steps[i]) = fp[i].skipReason

\* C29: the pass after the loop never changes a reason already assigned
C29_ReasonsKept ==
    \A i \in 1..Len(stepResults) :
        i <= Len(stepResults') =>
            /\ stepResults'[i].status = stepResults[i].status
            /\ SkipReasonOf(stepResults[i]) # NoSkip =>
                   SkipReasonOf(stepResults'[i]) = SkipReasonOf(stepResults[i])

C29_TwoPassesAsOne == []C29_SameAsForwardPass /\ [][C29_ReasonsKept]_vars

\* the pass ran (a step had failed) over a step skipped earlier for 'none'
C29_Witness ==
    /\ result # Undefined
    /\ encounteredFailure
    /\ Len(result.steps) = 3
    /\ result.steps[1].status = "skipped" /\ result.steps[1].skipReason = "no_op_command"
    /\ result.steps[2].status = "executed"
    /\ result.steps[3].status = "skipped"
    /\ result.steps[3].skipReason = "previous_step_failed"

\* ------------------------------------------------------------------ C30
\* C30: execute terminates on every plan: a started step completes because
\* its process closes by itself or is killed when the timer expires, and
\* execute returns one entry per step of the plan or rejects
C30_ExecuteTerminates ==
    /\ (pc = "executing") ~> (pc \in {"returned", "thrown"})
    /\ [](result # Undefined => Len(result.steps) = Len(plan.steps))

\* ---------------------------------------------------------------------------
\* collectRevisionHistory has returned to the handler of request r
HistoryCollected(r) == rqPc[r] = "collected"

\* C31 (shape of the history): the history collectRevisionHistory returns
\* starts with the base record, each next record is the record stored under
\* the parentSessionId of the one before it, no session id occurs twice, and
\* it holds at most 25 records.
C31_HistoryShape ==
    HistoryCollected(1) =>
        LET h == rqHistory[1]
        IN  /\ Len(h) >= 1
            /\ h[1] = rqBase[1]
            /\ \A i \in 1..(Len(h) - 1) :
                    /\ h[i].parentSessionId # Null
                    /\ h[i].parentSessionId.v \in DOMAIN rqStore
                    /\ h[i + 1] = rqStore[h[i].parentSessionId.v]
            /\ \A i, j \in 1..Len(h) : h[i].id = h[j].id => i = j
            /\ Len(h) <= SafetyLimit

\* C31: collectRevisionHistory terminates for every content of the record
\* store, a cycle of parentSessionId links and a chain of any length
\* included, and the history it returns has the shape above.
C31_HistoryTerminates ==
    /\ [](C31_HistoryShape)
    /\ (rqPc[1] = "collecting") ~> HistoryCollected(1)

\* the loop was stopped by the counter: the oldest record collected has a
\* stored parent that is not in the history
C31_Witness ==
    /\ HistoryCollected(1)
    /\ Len(rqHistory[1]) = SafetyLimit
    /\ LET last == rqHistory[1][Len(rqHistory[1])]
       IN  /\ last.parentSessionId # Null
           /\ last.parentSessionId.v \in DOMAIN rqStore
           /\ last.parentSessionId \notin rqVisited[1]

\* ---------------------------------------------------------------------------
\* the record without parentSessionId at the end of the parent chain of a
\* record, or Null when the chain ends at a missing file or runs in a cycle
RECURSIVE ChainRoot(_, _, _)
ChainRoot(store, record, fuel) ==
    IF ~Truthy(record.parentSessionId) THEN record
    ELSE IF fuel = 0 \/ record.parentSessionId.v \notin DOMAIN store THEN Null
    ELSE ChainRoot(store, store[record.parentSessionId.v], fuel - 1)

\* the text under 'Original request:' in the task composed for request r
OriginalRequestText(r) == rqTask[r].v[2].text

\* C32: the original request text in a composed revision task is the task of
\* the record without parentSessionId at the root of the base record's
\* parent chain, whatever the length of the chain.
C32_OriginalIsRootTask ==
    \A r \in Requests :
        (rqTask[r] # Null /\ ChainRoot(rqStore, rqBase[r], Cardinality(DOMAIN rqStore)) # Null)
            => OriginalRequestText(r)
                 = ChainRoot(rqStore, rqBase[r], Cardinality(DOMAIN rqStore)).task

\* the same for the chains the loop of collectRevisionHistory walks to the end
C32_ShortChains ==
    \A r \in Requests :
        (/\ rqTask[r] # Null
         /\ ChainRoot(rqStore, rqBase[r], Cardinality(DOMAIN rqStore)) # Null
         /\ ~Truthy(rqHistory[r][Len(rqHistory[r])].parentSessionId))
            => OriginalRequestText(r)
                 = ChainRoot(rqStore, rqBase[r], Cardinality(DOMAIN rqStore)).task

\* ---------------------------------------------------------------------------
\* the number of outputs declared by the steps before step s
RECURSIVE OutputsBefore(_, _)
OutputsBefore(steps, s) ==
    IF s <= 1 THEN 0 ELSE OutputsBefore(steps, s - 1) + Len(steps[s - 1].outputs)

\* the absolute path lies under the root (the root itself included)
LiesUnder(rootSegs, segs) ==
    Len(segs) >= Len(rootSegs) /\ SubSeq(segs, 1, Len(rootSegs)) = rootSegs

\* resolvedOutputs holds one entry per declared output, in step order
OneEntryPerDeclaredOutput ==
    /\ Len(doResult.v) = OutputsBefore(doSteps, Len(doSteps) + 1)
    /\ \A s \in 1..Len(doSteps) : \A k \in 1..Len(doSteps[s].outputs) :
          LET entry == doResult.v[OutputsBefore(doSteps, s) + k]
          IN  /\ entry.path = doSteps[s].outputs[k].path
              /\ entry.description = doSteps[s].outputs[k].description
              /\ entry.absolutePath = Resolve(Cwd, doSteps[s].outputs[k].path)

\* C33: resolvedOutputs holds exactly one entry per declared output over all
\* steps, in step order, duplicates kept; size is non-null exactly when the
\* file exists; publicPath is non-null exactly when the file exists, a
\* public root is configured and the absolute path lies under that root.
C33_ResolvedOutputs ==
    doResult # Null =>
        /\ OneEntryPerDeclaredOutput
        /\ \A i \in 1..Len(doResult.v) :
              LET entry == doResult.v[i]
              IN  /\ entry.exists <=> entry.absolutePath \in DOMAIN doFs
                  /\ entry.size # Null <=> entry.exists
                  /\ entry.publicPath # Null <=>
                        (/\ entry.exists
                         /\ doRoot # Null
                         /\ LiesUnder(doRoot.v, entry.absolutePath))

\* the same but for the files whose path below the root starts with two dots
C33_PlainNames ==
    doResult # Null =>
        /\ OneEntryPerDeclaredOutput
        /\ \A i \in 1..Len(doResult.v) :
              LET entry == doResult.v[i]
              IN  /\ entry.size # Null <=> entry.exists
                  /\ entry.absolutePath[Len(entry.absolutePath)] # <<".", ".", "d">> =>
                        (entry.publicPath # Null <=>
                            (/\ entry.exists
                             /\ doRoot # Null
                             /\ LiesUnder(doRoot.v, entry.absolutePath)))

\* ---------------------------------------------------------------------------
FirstOf(S) == CHOOSE i \in S : \A j \in S : i <= j

\* the message names the command of a step and how the step ended
NamesStep(message, step) ==
    /\ Len(message.v) >= 3
    /\ message.v[1] = "Command"
    /\ message.v[2] = step.command
    /\ IF step.timedOut THEN message.v[3] = "timed out." /\ Len(message.v) = 3
       ELSE /\ message.v[3] = "exited with code"
            /\ Len(message.v) = 4
            /\ message.v[4] = ToString(step.exitCode.v)

\* C34: describeExecutionFailure picks its message by a fixed priority: a
\* top-level timeout gives the generic timeout message; else, when some
\* executed step failed, the message names the first such step's command
\* with 'timed out' or its exit code; else a non-zero top-level exit code
\* gives the generic exit-code message; else the generic fallback.  Hence
\* when a step exited non-zero and nothing timed out, the message names the
\* failing step's command and exit code.
C34_FailurePriority ==
    (dfMessage # Null /\ dfResult # Null) =>
        LET failed == FailedSteps(dfResult)
            topLevelCode == dfResult.exitCode # Null /\ dfResult.exitCode # Num(0)
        IN  /\ dfResult.timedOut => dfMessage = Str(<<"Command execution timed out.">>)
            /\ (~dfResult.timedOut /\ failed # {})
                  => NamesStep(dfMessage, dfResult.steps[FirstOf(failed)])
            /\ (~dfResult.timedOut /\ failed = {} /\ topLevelCode)
                  => dfMessage = Str(<<"Command execution exited with code",
                                       ToString(dfResult.exitCode.v)>>)
            /\ (~dfResult.timedOut /\ failed = {} /\ ~topLevelCode)
                  => dfMessage = Str(<<"Command execution failed.">>)
            /\ (/\ ~dfResult.timedOut
                /\ \A i \in 1..Len(dfResult.steps) : ~dfResult.steps[i].timedOut
                /\ failed # {})
                  => /\ Len(dfMessage.v) = 4
                     /\ dfMessage.v[2] = dfResult.steps[FirstOf(failed)].command
                     /\ dfMessage.v[4]
                           = ToString(dfResult.steps[FirstOf(failed)].exitCode.v)

\* a step exited non-zero after a step that succeeded, nothing timed out and
\* the top-level exit code is another non-zero number
C34_Witness ==
    /\ dfMessage # Null
    /\ dfResult # Null
    /\ ~dfResult.timedOut
    /\ dfResult.exitCode = Num(3)
    /\ Len(dfResult.steps) = 2
    /\ dfResult.steps[1] = [command |-> "ffmpeg", status |-> "executed",
                            exitCode |-> Num(0), timedOut |-> FALSE]
    /\ dfResult.steps[2] = [command |-> "magick", status |-> "executed",
                            exitCode |-> Num(2), timedOut |-> FALSE]

\* ---------------------------------------------------------------------------
\* the number of parentSessionId links from a record to the root of its chain
RECURSIVE DistanceFromRoot(_, _)
DistanceFromRoot(store, record) ==
    IF ~Truthy(record.parentSessionId) THEN 0
    ELSE 1 + DistanceFromRoot(store, store[record.parentSessionId.v])

\* the rows of the history table in the task composed for request r
HistoryTableRows(r) == rqTask[r].v[4].rows

\* the chain of the base record of request r ends at an original record
ChainHasRoot(r) == ChainRoot(rqStore, rqBase[r], Cardinality(DOMAIN rqStore)) # Null

\* C35: the history table has one row per record of the history, newest
\* first; a record without parent is labelled 'Original', every revision
\* 'Rev.N' with N its distance from the root, the newest row marked latest;
\* the newest row shows the new complaint when one is given.
C35_HistoryTable ==
    (rqPc[1] = "running" /\ ChainHasRoot(1)) =>
        LET rows == HistoryTableRows(1)
            h == rqHistory[1]
        IN  /\ Len(rows) = Len(h)
            /\ \A i \in 1..Len(h) :
                  /\ ~Truthy(h[i].parentSessionId) => rows[i].version.label = "Original"
                  /\ Truthy(h[i].parentSessionId) =>
                        /\ rows[i].version.label = "Rev."
                        /\ rows[i].version.n = DistanceFromRoot(rqStore, h[i])
                        /\ rows[i].version.latest <=> i = 1
                  /\ (i > 1 /\ Truthy(h[i].parentSessionId)) =>
                        rows[i].complaint = h[i].complaintContext.v.message
            /\ rows[1].complaint
                 = FormatTableCell(Str(TrimPieces(rqBody[1].complaint.v)))

\* the same for the histories that reach the root of the chain
C35_ShortChains ==
    (/\ rqPc[1] = "running"
     /\ ChainHasRoot(1)
     /\ ~Truthy(rqHistory[1][Len(rqHistory[1])].parentSessionId)) => C35_HistoryTable

\* ---------------------------------------------------------------------------
\* the steps of a result that ran a process
ExecutedSteps(res) == {i \in 1..Len(res.steps) : res.steps[i].status = "executed"}

\* C36: in every result of execute at most one executed step is failed
\* (timed out, or exited with a non-zero code), and it is the last executed
\* step; so the top-level exitCode and timedOut signal a failure exactly
\* when some executed step failed.
C36_OneFailureLast ==
    result # Undefined =>
        /\ Cardinality(FailedSteps(result)) <= 1
        /\ \A i \in FailedSteps(result) : \A j \in ExecutedSteps(result) : j <= i
        /\ (result.timedOut \/ result.exitCode \notin {Null, Num(0)})
              <=> FailedSteps(result) # {}

\* a step succeeded, the next one exited non-zero and the third was skipped
C36_Witness ==
    /\ result # Undefined
    /\ Len(result.steps) = 3
    /\ ExecutedSteps(result) = {1, 2}
    /\ FailedSteps(result) = {2}
    /\ ~result.timedOut
    /\ result.exitCode \notin {Null, Num(0)}

\* ---------------------------------------------------------------------------
\* C38 (state of the map): every entry in the streams map is the entry of a
\* subscriber of that very channel and has closed = false, and an entry
\* that is not closed is the one the map holds for its channel.
C38_MapHoldsOpenEntries ==
    /\ \A ch \in Channels :
          lsStreams[ch] # 0 =>
              /\ lsEntry[lsStreams[ch]].channel = ch
              /\ ~lsEntry[lsStreams[ch]].closed
    /\ \A c \in Subscribers :
          (lsEntry[c].channel # "" /\ ~lsEntry[c].closed) => lsStreams[lsEntry[c].channel] = c

\* C38 (replacement): when a subscriber connects on a channel that already
\* has an entry, the old entry is closed and the map holds the new one.
C38_OldEntryReplaced ==
    \A c \in Subscribers : \A ch \in Channels :
        (lsConn[c] = "new" /\ lsConn'[c] = "open" /\ lsEntry'[c].channel = ch
            /\ lsStreams[ch] # 0)
        => /\ lsEntry'[lsStreams[ch]].closed
           /\ lsStreams'[ch] = c
           /\ ~lsEntry'[c].closed

\* C38 (late close): the 'close' event of a connection whose entry is
\* already closed neither removes nor closes any entry.
C38_LateCloseHarmless ==
    \A c \in Subscribers :
        (lsConn[c] = "open" /\ lsConn'[c] = "disconnected" /\ lsEntry[c].closed)
        => /\ lsStreams' = lsStreams
           /\ lsEntry' = lsEntry

\* C38: after every operation of the LogStreamManager each channel id maps
\* to at most one entry and every entry in the map has closed = false; a
\* subscriber that connects on a channel that already has one closes and
\* replaces the old entry, and a later 'close' event of the old connection
\* neither removes nor closes the new entry.
C38_StreamsMap ==
    /\ [](C38_MapHoldsOpenEntries)
    /\ [][C38_OldEntryReplaced]_vars
    /\ [][C38_LateCloseHarmless]_vars

\* subscriber 2 replaced subscriber 1 on channel a, the old connection's
\* 'close' event came afterwards and the new entry is still in the map
C38_Witness ==
    /\ lsConn[1] = "disconnected"
    /\ lsEntry[1] = [channel |-> "a", closed |-> TRUE, heartbeat |-> FALSE]
    /\ lsTrace[1] = <<WriteOp("ready"), ClosedOp, EndOp>>
    /\ lsStreams["a"] = 2
    /\ lsEntry[2] = [channel |-> "a", closed |-> FALSE, heartbeat |-> TRUE]
    /\ lsCalls = 0

\* ---------------------------------------------------------------------------
\* the number of calls of res.end() on the response of subscriber c
RECURSIVE CountEnds(_)
CountEnds(trace) ==
    IF Len(trace) = 0 THEN 0
    ELSE (IF trace[1] = EndOp THEN 1 ELSE 0) + CountEnds(Tail(trace))

\* each subscriber's response is ended at most once
C39_EndedAtMostOnce == \A c \in Subscribers : CountEnds(lsTrace[c]) <= 1

\* nothing is written to a response after it was ended or its entry was
\* marked closed
C39_NoWriteAfterClose ==
    \A c \in Subscribers : \A i, j \in 1..Len(lsTrace[c]) :
        (i < j /\ lsTrace[c][i] \in {ClosedOp, EndOp}) => lsTrace[c][j].op # "write"

\* the 'end' event is the last thing a subscriber receives
C39_EndEventLast ==
    \A c \in Subscribers : \A i, j \in 1..Len(lsTrace[c]) :
        (i < j /\ lsTrace[c][i] = WriteOp("end")) => lsTrace[c][j].op # "write"

\* sending to a channel without an open subscriber changes no state
C39_SendToNobody ==
    \A ch \in Channels \cup {""}, throws \in BOOLEAN :
        (SendLogEvent(ch, "info", throws) /\ (ch = "" \/ lsStreams[ch] = 0))
            => UNCHANGED <<lsStreams, lsEntry, lsTrace, lsConn>>

\* C39: each subscriber's response is ended at most once and no event is
\* written to it after it was ended or marked closed; the 'end' event sent
\* by closeLogStream is the last event it receives; sending to a channel
\* with no open subscriber changes no state and raises no error.
C39_SubscriberStream ==
    /\ [](C39_EndedAtMostOnce /\ C39_NoWriteAfterClose /\ C39_EndEventLast)
    /\ [][C39_SendToNobody]_vars

\* the parts of C39 other than the count of res.end() calls
C39_OtherParts ==
    /\ [](C39_NoWriteAfterClose /\ C39_EndEventLast)
    /\ [][C39_SendToNobody]_vars

\* ---------------------------------------------------------------------------
\* the positions of the 'error' and 'close' events among the delivered ones
SettlingEvents ==
    {i \in 1..Len(spDelivered) : spDelivered[i].event \in {"error", "close"}}

\* the chunks of a stream delivered before position k
ChunksBefore(stream, k) ==
    Cardinality({i \in 1..(k - 1) :
        spDelivered[i].event = "data" /\ spDelivered[i].stream = stream})

\* C40 (state): the promise of spawnProcess is settled once an 'error' or
\* 'close' event was delivered and not before, exactly once, by the first of
\* them: rejected by 'error', resolved by 'close' with the output received
\* until then; the timer is no longer armed from that moment.
C40_SettledByFirstEvent ==
    /\ Len(spSettled) <= 1
    /\ (spSettled # <<>>) <=> (SettlingEvents # {})
    /\ spSettled # <<>> =>
          LET k == CHOOSE i \in SettlingEvents : \A j \in SettlingEvents : i <= j
          IN  /\ spTimer # "armed"
              /\ spFinished
              /\ spDelivered[k].event = "error" => spSettled[1].kind = "rejected"
              /\ spDelivered[k].event = "close" =>
                    /\ spSettled[1].kind = "resolved"
                    /\ Len(spSettled[1].value.stdout) = ChunksBefore("stdout", k)
                    /\ Len(spSettled[1].value.stderr) = ChunksBefore("stderr", k)
                    /\ spSettled[1].value.exitCode # Null =>
                          (spSettled[1].value.exitCode = spDelivered[k].code
                              /\ ~spSettled[1].value.timedOut)

\* C40 (steps): after the promise is settled no event and no timer expiry
\* settles it again or changes what it reported, and the timer does not
\* fire any more
C40_NothingAfterSettling ==
    spSettled # <<>> => (spSettled' = spSettled /\ spTimedOut' = spTimedOut
                            /\ spKills' = spKills)

\* C40: the promise returned by spawnProcess is settled exactly once, by
\* whichever of 'error' and 'close' comes first; the timer is cleared at
\* that moment; any later event or timer expiry neither settles it again nor
\* changes the reported exitCode, timedOut, stdout or stderr.
C40_SettledOnce ==
    /\ [](C40_SettledByFirstEvent)
    /\ [][C40_NothingAfterSettling]_vars

\* the spawn failed: 'error' rejected the promise while the timer was armed,
\* and the 'close' event that followed found it settled
C40_Witness ==
    /\ Len(spDelivered) >= 2
    /\ spDelivered[1].event = "error"
    /\ spDelivered[2].event = "close"
    /\ spSettled = <<[kind |-> "rejected"]>>
    /\ spTimer = "cleared"

\* ---------------------------------------------------------------------------
\* the handler of request r has appended its complaint entry and answered
EntryAppended(r) == rqPc[r] = "done" /\ rqResponse[r].status \in {200, 422}

\* the stored base record of request r holds the entry of request r
EntryStored(r) ==
    LET base == rqStore[TrimPieces(rqBody[r].sessionId.v)]
    IN  \E i \in 1..Len(base.complaints.v) :
            base.complaints.v[i].v.followUpSessionId = NewSessionId(r)

\* C37: appendComplaintEntry never loses an entry: when revision requests
\* against the same base session run concurrently, the stored base record
\* holds the complaint entry of every request whose append has completed.
C37_NoEntryLost == \A r \in Requests : EntryAppended(r) => EntryStored(r)

====
